---- MODULE Spec2Model ----
(***************************************************************************)
(* Model of the AI news engine: the per-source fetchers (Reddit, YouTube,  *)
(* TechCrunch, Medium), their date parsing and window filters, their       *)
(* deduplication, and the markdown report builder.                         *)
(*                                                                         *)
(* Text is modelled as a sequence of one-character strings, so substring   *)
(* tests and regular expressions are computed on the characters.  A        *)
(* calendar date is a day ordinal; strftime('%Y-%m-%d') renders it as the  *)
(* triple <<year, month, day>>, whose lexicographic order is the order of  *)
(* the zero-padded strings the code compares.                              *)
(***************************************************************************)
EXTENDS Integers, Sequences, FiniteSets, TLC

VARIABLES
  today,        \* the day datetime.now() falls on, as a day ordinal
  days_back,    \* the days_back a fetcher was constructed with
  dd_kind,      \* which deduplicator is exercised: "articles", "posts", "videos"
  dd_in,        \* the list handed to the deduplicator
  dd_outs,      \* results of the successive applications of the deduplicator
  win_articles, \* TechCrunch articles handed to _filter_articles
  win_article,  \* the Medium article handed to is_valid_article
  win_filtered, \* what _filter_articles returned
  win_valid,    \* what is_valid_article returned
  win_done,     \* which of the two window filters have run
  time_window,  \* RedditNewsFetcher.time_window
  rd_listings,  \* per subreddit, what subreddit.new(limit=None) yields
  rd_status,    \* RedditNewsFetcher.fetch_posts: "init", "ok" or "raised"
  rd_posts,     \* what RedditNewsFetcher.fetch_posts returned
  tc_response,  \* what the request of the TechCrunch page yields
  tc_status,    \* TechCrunchNews.get_articles: "init", "ok" or "raised"
  tc_articles,  \* what TechCrunchNews.get_articles returned
  mp_article,   \* the <article> block handed to Medium's parse_article
  mp_parsed,    \* what parse_article returned: <<>> for None, <<article>> otherwise
  mp_valid,     \* whether the parsed article passed is_valid_article
  mp_pc,        \* "init", then "done" once the block is parsed and validated
  mp_post_age,  \* <<>>, then <<what LatestMediumPosts.extract_post_age returned>>
  md_pc,        \* where MediumNewsFetcher.fetch_articles stands
  md_topic,     \* index in self.topics of the topic being scraped
  md_page,      \* the <article> blocks of the page source read last
  seen_links,   \* fetch_articles' seen_links of the current topic
  consecutive_no_new, \* fetch_articles' counter of batches without a new article
  all_articles, \* fetch_articles' all_articles
  driver,       \* the Chrome session of driver_manager: "open" or "quit"
  md_articles,  \* what fetch_articles returned
  news,         \* the files of the directory "news": path -> what was written
  gm_status,    \* generate_markdown: "init", "ok" or "raised"
  gm_filename,  \* the path filename_generator returned to the last call
  gm_args,      \* the four lists handed to the last call of generate_markdown
  gm_calls,     \* how many times generate_markdown was called
  md_batch_count, \* how many batches of the current topic have been processed
  md_batches,   \* for the last three batches of the current topic, whether each yielded a new article
  mn_entry,     \* the entry point that runs: main.py, reddit_search.py, youtube_search.py
  mn_env,       \* which credentials the environment holds
  mn_pc,        \* where the entry point's main stands
  mn_calls,     \* the fetches invoked so far, in order, each with what it returned
  mn_lists,     \* main's reddit_posts, youtube_videos, techcrunch_articles, medium_posts
  mn_driver,    \* the Chrome session MediumNewsFetcher.__init__ starts: "none", "open", "quit"
  yt_pc,        \* where YouTubeNewsFetcher.fetch_videos stands
  yt_term,      \* index in self.search_terms of the term being searched
  yt_items,     \* video_items: what search_videos returned for the term
  yt_lookups,   \* per call of process_video so far, how its two lookups ended
  yt_videos,    \* videos: the Videos built so far from video_items
  yt_all_videos, \* fetch_videos' all_videos
  yt_result,    \* what fetch_videos returned
  rn_pc,        \* per concurrent run of generate_markdown: "probe", "open", "raised", "done"
  rn_ix,        \* per run, filename_generator's ix
  rn_opened     \* the calls of open(filename, 'w') so far: run, path, whether the path existed

commonVars == <<today, days_back>>
ddVars == <<dd_kind, dd_in, dd_outs>>
winVars == <<win_articles, win_article, win_filtered, win_valid, win_done>>
rdVars == <<time_window, rd_listings, rd_status, rd_posts>>
tcVars == <<tc_response, tc_status, tc_articles>>
mpVars == <<mp_article, mp_parsed, mp_valid, mp_pc, mp_post_age>>
mdVars == <<md_pc, md_topic, md_page, seen_links, consecutive_no_new,
           all_articles, driver, md_articles, md_batches, md_batch_count>>
gmVars == <<news, gm_status, gm_filename, gm_args, gm_calls>>
mnVars == <<mn_entry, mn_env, mn_pc, mn_calls, mn_lists, mn_driver>>
ytVars == <<yt_pc, yt_term, yt_items, yt_lookups, yt_videos, yt_all_videos, yt_result>>
rnVars == <<rn_pc, rn_ix, rn_opened>>
vars == <<commonVars, ddVars, winVars, rdVars, tcVars, mpVars, mdVars, gmVars, mnVars,
          ytVars, rnVars>>
outsideDedupe == <<commonVars, winVars, rdVars, tcVars, mpVars, mdVars, gmVars, mnVars,
  ytVars, rnVars>>
outsideWindow == <<ddVars, rdVars, tcVars, mpVars, mdVars, gmVars, mnVars,
  ytVars, rnVars>>
outsideReddit == <<ddVars, winVars, tcVars, mpVars, mdVars, gmVars, mnVars,
  ytVars, rnVars>>
outsideTechCrunch == <<ddVars, winVars, rdVars, mpVars, mdVars, gmVars, mnVars,
  ytVars, rnVars>>
outsideMediumParser == <<ddVars, winVars, rdVars, tcVars, mdVars, gmVars, mnVars,
  ytVars, rnVars>>
outsideMedium == <<ddVars, winVars, rdVars, tcVars, mpVars, gmVars, mnVars,
  ytVars, rnVars>>
outsideReport == <<days_back, ddVars, winVars, rdVars, tcVars, mpVars, mdVars, mnVars,
  ytVars, rnVars>>
outsideMain == <<days_back, ddVars, winVars, rdVars, tcVars, mpVars, mdVars, ytVars,
  rnVars>>
outsideYouTube == <<commonVars, ddVars, winVars, rdVars, tcVars, mpVars, mdVars, gmVars,
  mnVars, rnVars>>
outsideRuns == <<days_back, gm_status, gm_filename, gm_args, gm_calls, ddVars, winVars,
  rdVars, tcVars, mpVars, mdVars, mnVars, ytVars>>

(***************************************************************************)
(* Bounds of the model.                                                    *)
(***************************************************************************)
MaxItems == 3        \* longest list handed to a Medium deduplicator
MaxResults == 2      \* longest search response per YouTube search term
MaxPasses == 2       \* applications of a deduplicator in a row
MaxDaysBack == 2     \* largest days_back a fetcher is constructed with
MaxAge == 3          \* oldest item handed to a window filter, in days
MaxArticles == 2     \* longest list handed to _filter_articles
MaxPosts == 3        \* most submissions in the listings of all subreddits together
MaxBlocks == 2       \* most article blocks on the TechCrunch page
MaxDivs == 2         \* most <div> elements in a Medium article block
MaxPageBlocks == 2   \* most <article> blocks in a Medium page source

\* Python's None where a str is expected.  Text is a sequence of characters,
\* so None is a sequence that is no text: its only element is not a character.
None == <<"<None>">>

(***************************************************************************)
(* Text: str methods and the regular expressions of the parsers.           *)
(***************************************************************************)
DigitChars == <<"0", "1", "2", "3", "4", "5", "6", "7", "8", "9">>
UpperChars == <<"A", "B", "C", "D", "E", "F", "G", "H", "I", "J", "K", "L", "M",
                "N", "O", "P", "Q", "R", "S", "T", "U", "V", "W", "X", "Y", "Z">>
LowerChars == <<"a", "b", "c", "d", "e", "f", "g", "h", "i", "j", "k", "l", "m",
                "n", "o", "p", "q", "r", "s", "t", "u", "v", "w", "x", "y", "z">>

IsDigit(c) == c \in {"0", "1", "2", "3", "4", "5", "6", "7", "8", "9"}
DigitValue(c) == (CHOOSE k \in 1..10 : DigitChars[k] = c) - 1
\* \w of the re module
IsWordChar(c) ==
  \/ IsDigit(c)
  \/ c \in {UpperChars[k] : k \in 1..26} \cup {LowerChars[k] : k \in 1..26}
  \/ c = "_"
IsSpace(c) == c \in {" ", "\n", "\t"}

\* str.lower()
lower(s) ==
  [i \in 1..Len(s) |->
     IF \E k \in 1..26 : UpperChars[k] = s[i]
     THEN LowerChars[CHOOSE k \in 1..26 : UpperChars[k] = s[i]]
     ELSE s[i]]

\* str.strip()
strip(s) ==
  LET keep == {i \in 1..Len(s) : ~IsSpace(s[i])}
  IN IF keep = {} THEN <<>>
     ELSE SubSeq(s, CHOOSE i \in keep : \A j \in keep : i <= j,
                    CHOOSE i \in keep : \A j \in keep : i >= j)

\* s[i:i+len(sub)] == sub
MatchesAt(s, i, sub) ==
  i >= 1 /\ i + Len(sub) - 1 <= Len(s) /\ SubSeq(s, i, i + Len(sub) - 1) = sub

\* sub in s
Contains(s, sub) == \E i \in 1..(Len(s) + 1) : MatchesAt(s, i, sub)

\* The end of the longest run of digits that starts at i (i - 1 if s[i] is no digit).
DigitRunEnd(s, i) ==
  CHOOSE j \in (i-1)..Len(s) :
    /\ \A k \in i..j : IsDigit(s[k])
    /\ (j = Len(s) \/ ~IsDigit(s[j + 1]))

\* int(digits)
RECURSIVE int(_)
int(ds) ==
  IF ds = <<>> THEN 0
  ELSE 10 * int(SubSeq(ds, 1, Len(ds) - 1)) + DigitValue(ds[Len(ds)])

\* re.search(r'\d+', s): the leftmost longest run of digits, None without one.
search_digits(s) ==
  LET starts == {i \in 1..Len(s) : IsDigit(s[i])}
  IN IF starts = {} THEN None
     ELSE LET i == CHOOSE a \in starts : \A b \in starts : a <= b
          IN SubSeq(s, i, DigitRunEnd(s, i))

(***************************************************************************)
(* Dates.  Day ordinal 0 is 2024-12-01; the ordinals 0..61 cover December  *)
(* 2024 and January 2025.                                                  *)
(***************************************************************************)
\* date.strftime('%Y-%m-%d'): the zero-padded fields, most significant first
strftime(ord) ==
  IF ord <= 30 THEN <<2024, 12, ord + 1>> ELSE <<2025, 1, ord - 30>>

\* datetime.strptime(s, '%Y-%m-%d').date()
strptime(s) == IF s[1] = 2024 THEN s[3] - 1 ELSE s[3] + 30

\* a >= b on two '%Y-%m-%d' strings: character by character, which on
\* zero-padded fields of equal width is field by field
StrGE(a, b) ==
  \/ a[1] > b[1]
  \/ a[1] = b[1] /\ a[2] > b[2]
  \/ a[1] = b[1] /\ a[2] = b[2] /\ a[3] >= b[3]
StrLT(a, b) == ~StrGE(a, b)

\* The dates datetime.now() falls on in the runs of the model.
Todays == {31, 32}

\* All sequences over S of length at most n.
SeqsUpTo(S, n) == UNION {[1..k -> S] : k \in 0..n}

(***************************************************************************)
(* Deduplication.                                                          *)
(***************************************************************************)
MediumArticle(title, link, img, snippet, date, topic) ==
  [title |-> title, link |-> link, img |-> img, snippet |-> snippet,
   date |-> date, topic |-> topic]

\* Python truthiness of an Optional[str]: None and "" are false.
Truthy(s) == s # None /\ s # <<>>

RECURSIVE remove_duplicate_articles_loop(_, _, _)
remove_duplicate_articles_loop(articles, unique_articles, seen) ==
  IF articles = <<>> THEN unique_articles
  ELSE LET article == Head(articles) IN
    IF Truthy(article.link) /\ article.link \notin seen
    THEN remove_duplicate_articles_loop(Tail(articles),
           Append(unique_articles, article), seen \cup {article.link})
    ELSE remove_duplicate_articles_loop(Tail(articles), unique_articles, seen)

\* A deduplicator that lets a later item with a seen link replace the kept one.
RECURSIVE remove_duplicate_articles_keep_last(_)
remove_duplicate_articles_keep_last(articles) ==
  IF articles = <<>> THEN <<>>
  ELSE LET article == Head(articles)
           rest == Tail(articles)
       IN IF Truthy(article.link)
             /\ \A j \in 1..Len(rest) : rest[j].link # article.link
          THEN <<article>> \o remove_duplicate_articles_keep_last(rest)
          ELSE remove_duplicate_articles_keep_last(rest)

remove_duplicate_articles(articles) ==
  remove_duplicate_articles_loop(articles, <<>>, {})

RECURSIVE remove_duplicate_posts_loop(_, _, _)
remove_duplicate_posts_loop(posts, unique_posts, seen) ==
  IF posts = <<>> THEN unique_posts
  ELSE LET p == Head(posts) IN
    IF \A k \in 1..Len(seen) : seen[k] # p.link
    THEN remove_duplicate_posts_loop(Tail(posts),
           Append(unique_posts, p), Append(seen, p.link))
    ELSE remove_duplicate_posts_loop(Tail(posts), unique_posts, seen)

remove_duplicate_posts(posts) == remove_duplicate_posts_loop(posts, <<>>, <<>>)

Video(title, video_id, published_at, topic, link, channel, date, description, transcript) ==
  [title |-> title, video_id |-> video_id, published_at |-> published_at,
   topic |-> topic, link |-> link, channel |-> channel, date |-> date,
   description |-> description, transcript |-> transcript]

\* A deduplicator that keeps the first record of each video id, in input order.
RECURSIVE keep_first_by_video_id(_, _)
keep_first_by_video_id(videos, d) ==
  IF videos = <<>> THEN d
  ELSE LET v == Head(videos) IN
    IF \E k \in 1..Len(d) : d[k].video_id = v.video_id
    THEN keep_first_by_video_id(Tail(videos), d)
    ELSE keep_first_by_video_id(Tail(videos), Append(d, v))

\* A descending sort obtained by reversing an ascending stable sort: records
\* with equal keys come out in reverse order.
RECURSIVE sorted_then_reversed(_)
sorted_then_reversed(s) ==
  IF s = <<>> THEN <<>>
  ELSE LET n == Len(s)
           x == s[n]
           init == sorted_then_reversed(SubSeq(s, 1, n - 1))
           before == {k \in 1..Len(init) : init[k].published_at > x.published_at}
           p == Cardinality(before)
       IN SubSeq(init, 1, p) \o <<x>> \o SubSeq(init, p + 1, Len(init))

\* {v.video_id: v for v in videos}: a dict keeps the position of the first
\* insertion of a key and the value of its last assignment.
RECURSIVE dict_by_video_id(_, _)
dict_by_video_id(videos, d) ==
  IF videos = <<>> THEN d
  ELSE LET v == Head(videos)
           hit == {k \in 1..Len(d) : d[k].video_id = v.video_id}
       IN IF hit = {}
          THEN dict_by_video_id(Tail(videos), Append(d, v))
          ELSE dict_by_video_id(Tail(videos),
                 [k \in 1..Len(d) |-> IF k \in hit THEN v ELSE d[k]])

\* sorted(..., key=published_at, reverse=True): stable, so records with equal
\* keys keep their relative order.
RECURSIVE sorted_by_published_at_reverse(_)
sorted_by_published_at_reverse(s) ==
  IF s = <<>> THEN <<>>
  ELSE LET n == Len(s)
           x == s[n]
           init == sorted_by_published_at_reverse(SubSeq(s, 1, n - 1))
           before == {k \in 1..Len(init) : init[k].published_at >= x.published_at}
           p == Cardinality(before)
       IN SubSeq(init, 1, p) \o <<x>> \o SubSeq(init, p + 1, Len(init))

remove_duplicates(videos) ==
  sorted_by_published_at_reverse(dict_by_video_id(videos, <<>>))

(***************************************************************************)
(* Inputs of the deduplicators.                                            *)
(***************************************************************************)
HTTPS == <<"h", "t", "t", "p", "s">>
Link1 == HTTPS \o <<":", "/", "/", "m", ".", "c", "o", "/", "1">>
Link2 == HTTPS \o <<":", "/", "/", "m", ".", "c", "o", "/", "2">>
MediumLinks == {Link1, Link2}
MEDIUM_TOPICS == <<"llm", "large-language-models">>
Titles == {<<"A">>, <<"B">>}

SeqRange(s) == {s[i] : i \in 1..Len(s)}

\* The articles process_current_page can append to all_articles: title, link
\* and snippet present, a date inside the window.
ArticleItems ==
  {MediumArticle(t, l, None, <<"s">>, <<2025, 1, 1>>, tp) :
     t \in Titles, l \in MediumLinks, tp \in SeqRange(MEDIUM_TOPICS)}

\* The dicts LatestMediumPosts.run appends to posts: parse_article's dict (any
\* field may be None) tagged with the topic.
PostItems ==
  {[title |-> <<"A">>, link |-> l, img |-> None, snippet |-> <<"s">>,
    post_age |-> <<"5", "h", " ", "a", "g", "o">>, topic |-> tp] :
     l \in MediumLinks \cup {None}, tp \in SeqRange(MEDIUM_TOPICS)}

\* The YouTube search terms of the run and the videos the search can return.
search_terms == <<"LLM", "AI tools">>
VideoIds == {"v1", "v2", "v3"}
\* publishedAt of each video: ISO-8601 UTC timestamps of one format compare as
\* the instants they denote; v2 and v3 were published at the same instant.
PublishedAt(id) == IF id = "v1" THEN 2 ELSE 1

SearchItem(id) ==
  [videoId |-> id, title |-> id, publishedAt |-> PublishedAt(id),
   channelTitle |-> "channel"]

\* process_video, given how its two lookups end.  get_transcript sits in a try
\* whose bare except leaves transcript = ""; YouTube(link).description sits
\* after it, outside any try, so its exception leaves process_video.
process_video_lookups(video_item, query, transcript_ok, description_ok) ==
  LET transcript == IF transcript_ok THEN "transcript" ELSE ""
  IN IF ~description_ok
     THEN [raised |-> TRUE, video |-> <<>>]
     ELSE [raised |-> FALSE,
           video |-> Video(video_item.title, video_item.videoId,
                           video_item.publishedAt, query,
                           <<"https://www.youtube.com/watch?v=", video_item.videoId>>,
                           video_item.channelTitle, video_item.publishedAt,
                           "description", transcript)]

process_video(video_item, query) ==
  process_video_lookups(video_item, query, TRUE, TRUE).video

\* The loop of fetch_videos over the search terms: all_videos in the order the
\* terms are searched, each video tagged with its term.
RECURSIVE all_videos_of(_, _)
all_videos_of(responses, i) ==
  IF i > Len(search_terms) THEN <<>>
  ELSE [k \in 1..Len(responses[i]) |->
          process_video(SearchItem(responses[i][k]), search_terms[i])]
       \o all_videos_of(responses, i + 1)

\* What search().list(order='date') can return for one term: distinct videos,
\* newest first.
SearchResponses ==
  {r \in SeqsUpTo(VideoIds, MaxResults) :
     \A a, b \in 1..Len(r) : a < b =>
       r[a] # r[b] /\ PublishedAt(r[a]) >= PublishedAt(r[b])}

DedupeIdle == dd_kind = "none" /\ dd_in = <<>> /\ dd_outs = <<>>
CommonIdle == today = 0 /\ days_back = 0

WindowIdle ==
  /\ win_articles = <<>> /\ win_article = None /\ win_filtered = <<>>
  /\ win_valid = FALSE /\ win_done = {}

RedditIdle ==
  time_window = <<>> /\ rd_listings = <<>> /\ rd_status = "none" /\ rd_posts = <<>>

TechCrunchIdle ==
  tc_response = <<>> /\ tc_status = "none" /\ tc_articles = <<>>

MediumParserIdle ==
  /\ mp_article = <<>> /\ mp_parsed = <<>> /\ mp_valid = FALSE /\ mp_pc = "none"
  /\ mp_post_age = <<>>

MediumIdle ==
  /\ md_pc = "none" /\ md_topic = 0 /\ md_page = <<>> /\ seen_links = {}
  /\ consecutive_no_new = 0 /\ all_articles = <<>> /\ driver = "none"
  /\ md_articles = <<>> /\ md_batches = <<>> /\ md_batch_count = 0

MainIdle ==
  /\ mn_entry = "none" /\ mn_env = <<>> /\ mn_pc = "none" /\ mn_calls = <<>>
  /\ mn_lists = <<>> /\ mn_driver = "none"

YouTubeIdle ==
  /\ yt_pc = "none" /\ yt_term = 0 /\ yt_items = <<>> /\ yt_lookups = <<>>
  /\ yt_videos = <<>> /\ yt_all_videos = <<>> /\ yt_result = <<>>

RunsIdle == rn_pc = <<>> /\ rn_ix = <<>> /\ rn_opened = <<>>

ReportIdle ==
  /\ news = <<>> /\ gm_status = "none" /\ gm_filename = <<>> /\ gm_args = <<>>
  /\ gm_calls = 0

InitDedupe ==
  /\ CommonIdle /\ WindowIdle /\ RedditIdle /\ TechCrunchIdle /\ MediumParserIdle
  /\ MediumIdle
  /\ ReportIdle /\ MainIdle /\ YouTubeIdle /\ RunsIdle
  /\ dd_outs = <<>>
  /\ \/ dd_kind = "articles" /\ dd_in \in SeqsUpTo(ArticleItems, MaxItems)
     \/ dd_kind = "posts" /\ dd_in \in SeqsUpTo(PostItems, MaxItems)
     \/ /\ dd_kind = "videos"
        /\ \E responses \in [1..Len(search_terms) -> SearchResponses] :
             dd_in = all_videos_of(responses, 1)

DedupeArg == IF dd_outs = <<>> THEN dd_in ELSE dd_outs[Len(dd_outs)]

RemoveDuplicateArticles ==
  /\ dd_kind = "articles"
  /\ Len(dd_outs) < MaxPasses
  /\ dd_outs' = Append(dd_outs, remove_duplicate_articles(DedupeArg))
  /\ UNCHANGED <<dd_kind, dd_in, outsideDedupe>>

RemoveDuplicatePosts ==
  /\ dd_kind = "posts"
  /\ Len(dd_outs) < MaxPasses
  /\ dd_outs' = Append(dd_outs, remove_duplicate_posts(DedupeArg))
  /\ UNCHANGED <<dd_kind, dd_in, outsideDedupe>>

RemoveDuplicates ==
  /\ dd_kind = "videos"
  /\ Len(dd_outs) < MaxPasses
  /\ dd_outs' = Append(dd_outs, remove_duplicates(DedupeArg))
  /\ UNCHANGED <<dd_kind, dd_in, outsideDedupe>>

NextDedupe == RemoveDuplicateArticles \/ RemoveDuplicatePosts \/ RemoveDuplicates

SpecDedupe == InitDedupe /\ [][NextDedupe]_vars

\* The subsequence of s at the indices in I, in order.
RECURSIVE SubseqAtFrom(_, _, _)
SubseqAtFrom(s, I, i) ==
  IF i > Len(s) THEN <<>>
  ELSE IF i \in I THEN <<s[i]>> \o SubseqAtFrom(s, I, i + 1)
  ELSE SubseqAtFrom(s, I, i + 1)
SubseqAt(s, I) == SubseqAtFrom(s, I, 1)

FirstByLink(s) == {i \in 1..Len(s) : \A j \in 1..(i-1) : s[j].link # s[i].link}
FirstById(s) == {i \in 1..Len(s) : \A j \in 1..(i-1) : s[j].video_id # s[i].video_id}
LastById(s) == {i \in 1..Len(s) : \A j \in (i+1)..Len(s) : s[j].video_id # s[i].video_id}

\* C1: remove_duplicate_articles and remove_duplicate_posts return exactly the
\* first occurrence of each distinct link of the input, in input order.
C1_FirstOccurrenceOfEachLink ==
  (dd_kind \in {"articles", "posts"} /\ Len(dd_outs) >= 1)
    => dd_outs[1] = SubseqAt(dd_in, FirstByLink(dd_in))

\* [A(link=1), B(link=2), C(link=1)] with C found by another topic gives [A, B].
C1_Witness ==
  /\ dd_kind = "articles"
  /\ Len(dd_in) = 3
  /\ dd_in[1].link = dd_in[3].link
  /\ dd_in[1].link # dd_in[2].link
  /\ dd_in[1].topic # dd_in[3].topic
  /\ Len(dd_outs) >= 1
  /\ dd_outs[1] = <<dd_in[1], dd_in[2]>>

\* C2: deduplicating the result of a deduplication changes nothing, for
\* remove_duplicate_articles and for YouTube's remove_duplicates.
C2_DedupeIdempotent ==
  (dd_kind \in {"articles", "videos"} /\ Len(dd_outs) >= 2)
    => dd_outs[2] = dd_outs[1]

\* Two videos with the same timestamp and a duplicate, deduplicated twice.
C2_Witness ==
  /\ dd_kind = "videos"
  /\ Len(dd_outs) = 2
  /\ Len(dd_outs[1]) = 2
  /\ Len(dd_in) > 2
  /\ dd_outs[1][1].published_at = dd_outs[1][2].published_at
  /\ dd_outs[2] = dd_outs[1]

Article(title, link, author, snippet, date) ==
  [title |-> title, link |-> link, author |-> author, snippet |-> snippet,
   date |-> date]

\* Titles and what langdetect's detect makes of them; it raises
\* LangDetectException on a text without letters.
TitleEn == <<"H", "i">>
TitleDe == <<"J", "a">>
TitleNoFeatures == <<"1">>
detect_raises(title) == \A i \in 1..Len(title) : ~IsWordChar(title[i]) \/ IsDigit(title[i])
detect(title) == IF title = TitleDe THEN "de" ELSE "en"

\* A filter that compares with > instead of >=.
filter_articles_strict(articles) ==
  LET cutoff_date == strftime(today - days_back)
      Keep(article) == Truthy(article.date) /\ ~StrGE(cutoff_date, article.date)
  IN SelectSeq(articles, Keep)

_filter_articles(articles) ==
  LET cutoff_date == strftime(today - days_back)
      Keep(article) == Truthy(article.date) /\ StrGE(article.date, cutoff_date)
  IN SelectSeq(articles, Keep)

\* is_valid_article raises when detect does; detect is evaluated only for an
\* article dated inside the window.
is_valid_article_raises(article) ==
  /\ Truthy(article.date)
  /\ strptime(article.date) >= today - days_back
  /\ detect_raises(article.title)

is_valid_article(article) ==
  IF ~Truthy(article.date) THEN FALSE
  ELSE LET article_date == strptime(article.date)
           cutoff_date == today - days_back
       IN article_date >= cutoff_date /\ detect(article.title) = "en"

\* The dates an item can carry: today - k days, or no date.
ItemDates == {None} \cup {strftime(today - k) : k \in 0..MaxAge}

InitWindow ==
  /\ today \in Todays
  /\ days_back \in 0..MaxDaysBack
  /\ DedupeIdle /\ RedditIdle /\ TechCrunchIdle /\ MediumParserIdle /\ MediumIdle
  /\ ReportIdle /\ MainIdle /\ YouTubeIdle /\ RunsIdle
  /\ win_articles \in SeqsUpTo({Article(TitleEn, Link1, None, <<"s">>, d) : d \in ItemDates},
                               MaxArticles)
  /\ win_article \in {MediumArticle(t, Link1, None, <<"s">>, d, MEDIUM_TOPICS[1]) :
                        t \in {TitleEn, TitleDe}, d \in ItemDates}
  /\ win_filtered = <<>>
  /\ win_valid = FALSE
  /\ win_done = {}

FilterArticles ==
  /\ "_filter_articles" \notin win_done
  /\ win_filtered' = _filter_articles(win_articles)
  /\ win_done' = win_done \cup {"_filter_articles"}
  /\ UNCHANGED <<win_articles, win_article, win_valid, commonVars, outsideWindow>>

IsValidArticle ==
  /\ "is_valid_article" \notin win_done
  /\ ~is_valid_article_raises(win_article)
  /\ win_valid' = is_valid_article(win_article)
  /\ win_done' = win_done \cup {"is_valid_article"}
  /\ UNCHANGED <<win_articles, win_article, win_filtered, commonVars, outsideWindow>>

NextWindow == FilterArticles \/ IsValidArticle

SpecWindow == InitWindow /\ [][NextWindow]_vars

\* The day a date string denotes, for a date inside the window [today - N, today ...).
InWindow(date) == date # None /\ strptime(date) >= today - days_back

\* C4: both window filters admit an item iff it has a date d with
\* d >= today - days_back (the Medium one for an English title); an item
\* without a date is rejected.
C4_WindowInclusive ==
  /\ "_filter_articles" \in win_done =>
       win_filtered = SubseqAt(win_articles,
                        {i \in 1..Len(win_articles) : InWindow(win_articles[i].date)})
  /\ ("is_valid_article" \in win_done /\ win_article.title = TitleEn) =>
       (win_valid <=> InWindow(win_article.date))

\* Both filters ran with days_back >= 1: TechCrunch was handed an article dated
\* today - days_back and one dated a day earlier and kept only the first;
\* Medium admitted an article dated today - days_back.
C4_Witness ==
  /\ days_back >= 1
  /\ win_done = {"_filter_articles", "is_valid_article"}
  /\ Len(win_articles) = 2
  /\ win_articles[1].date = strftime(today - days_back)
  /\ win_articles[2].date = strftime(today - days_back - 1)
  /\ win_filtered = <<win_articles[1]>>
  /\ win_article.title = TitleEn
  /\ win_article.date = strftime(today - days_back)
  /\ win_valid

(***************************************************************************)
(* The Reddit fetcher.                                                     *)
(***************************************************************************)
REDDIT_CHANNELS == <<"LocalLLaMA", "GPT3">>

RedditPost(title, link, author, score, date, content, num_comments, subreddit, is_self) ==
  [title |-> title, link |-> link, author |-> author, score |-> score,
   date |-> date, content |-> content, num_comments |-> num_comments,
   subreddit |-> subreddit, is_self |-> is_self]

\* [(today - timedelta(days=x)).strftime(...) for x in range(self.days_back)]
generate_time_window ==
  [x \in 1..days_back |-> strftime(today - (x - 1))]

\* min() of a non-empty list of '%Y-%m-%d' strings
min_date(dates) ==
  CHOOSE d \in SeqRange(dates) : \A e \in SeqRange(dates) : StrGE(e, d)

\* The dict fetch_posts builds of a submission.
post_dict(post, post_date, subreddit_name) ==
  LET link == <<"https://www.reddit.com", post.permalink>>
  IN [title |-> post.title, link |-> link,
      author |-> IF post.author = None THEN <<"[deleted]">> ELSE post.author,
      score |-> post.score, date |-> post_date,
      content |-> IF post.is_self THEN post.selftext ELSE link,
      num_comments |-> post.num_comments, subreddit |-> subreddit_name,
      is_self |-> post.is_self]

\* The loop of RedditAPIClient.fetch_posts over one listing; min() of an empty
\* time window raises ValueError.
RECURSIVE api_fetch_posts_loop(_, _, _)
api_fetch_posts_loop(listing, subreddit_name, recent_posts) ==
  IF listing = <<>> THEN [raised |-> FALSE, posts |-> recent_posts]
  ELSE LET post == Head(listing)
           post_date == strftime(post.created)
       IN IF \E k \in 1..Len(time_window) : time_window[k] = post_date
          THEN api_fetch_posts_loop(Tail(listing), subreddit_name,
                 Append(recent_posts, post_dict(post, post_date, subreddit_name)))
          ELSE IF time_window = <<>>
          THEN [raised |-> TRUE, posts |-> <<>>]
          ELSE IF StrLT(post_date, min_date(time_window))
          THEN [raised |-> FALSE, posts |-> recent_posts]
          ELSE api_fetch_posts_loop(Tail(listing), subreddit_name, recent_posts)

\* RedditAPIClient.fetch_posts: the request of the listing can fail.
api_fetch_posts(response, subreddit_name) ==
  IF ~response.ok THEN [raised |-> TRUE, posts |-> <<>>]
  ELSE api_fetch_posts_loop(response.listing, subreddit_name, <<>>)

process_post(post) ==
  RedditPost(post.title, post.link, post.author, post.score, post.date,
             post.content, post.num_comments, post.subreddit, post.is_self)

\* sorted(all_posts, key=lambda x: x.date, reverse=True), stable
RECURSIVE sorted_by_date_reverse(_)
sorted_by_date_reverse(s) ==
  IF s = <<>> THEN <<>>
  ELSE LET n == Len(s)
           x == s[n]
           init == sorted_by_date_reverse(SubSeq(s, 1, n - 1))
           before == {k \in 1..Len(init) : StrGE(init[k].date, x.date)}
           p == Cardinality(before)
       IN SubSeq(init, 1, p) \o <<x>> \o SubSeq(init, p + 1, Len(init))

\* The loop of RedditNewsFetcher.fetch_posts over the subreddits, from the i-th.
RECURSIVE reddit_fetch_posts_loop(_, _)
reddit_fetch_posts_loop(i, all_posts) ==
  IF i > Len(REDDIT_CHANNELS) THEN [raised |-> FALSE, posts |-> all_posts]
  ELSE LET raw == api_fetch_posts(rd_listings[i], REDDIT_CHANNELS[i])
       IN IF raw.raised THEN [raised |-> TRUE, posts |-> <<>>]
          ELSE reddit_fetch_posts_loop(i + 1,
                 all_posts \o [k \in 1..Len(raw.posts) |-> process_post(raw.posts[k])])

\* The submissions a listing can hold: created today - age.
Submissions ==
  {[title |-> <<"t">>, permalink |-> pl, author |-> None, score |-> 1,
    selftext |-> <<"x">>, is_self |-> TRUE, num_comments |-> 0,
    created |-> today - age] :
     pl \in {"/r/1", "/r/2"}, age \in 0..MaxAge}

ListingResponses ==
  {[ok |-> TRUE, listing |-> l] : l \in SeqsUpTo(Submissions, MaxPosts)}
  \cup {[ok |-> FALSE, listing |-> <<>>]}

InitReddit ==
  /\ today \in Todays
  /\ days_back \in 0..MaxDaysBack
  /\ DedupeIdle /\ WindowIdle /\ TechCrunchIdle /\ MediumParserIdle /\ MediumIdle
  /\ ReportIdle /\ MainIdle /\ YouTubeIdle /\ RunsIdle
  /\ time_window = generate_time_window
  /\ rd_listings \in [1..Len(REDDIT_CHANNELS) -> ListingResponses]
  /\ Len(rd_listings[1].listing) + Len(rd_listings[2].listing) <= MaxPosts
  /\ rd_status = "init"
  /\ rd_posts = <<>>

RedditFetchPosts ==
  /\ rd_status = "init"
  /\ LET r == reddit_fetch_posts_loop(1, <<>>)
     IN /\ rd_status' = IF r.raised THEN "raised" ELSE "ok"
        /\ rd_posts' = IF r.raised THEN <<>> ELSE sorted_by_date_reverse(r.posts)
  /\ UNCHANGED <<time_window, rd_listings, commonVars, outsideReddit>>

NextReddit == RedditFetchPosts

SpecReddit == InitReddit /\ [][NextReddit]_vars

\* A listing as subreddit.new yields it: newest first.
NewestFirst(listing) ==
  \A a, b \in 1..Len(listing) : a < b => listing[a].created >= listing[b].created

\* C5: the time window holds every day from today - days_back to today, and
\* fetch_posts returns every post of a newest-first listing dated in
\* [today - days_back, today], the post dated today - days_back included.
C5_RedditWindowInclusive ==
  rd_status # "init" =>
    \A i \in 1..Len(REDDIT_CHANNELS) :
      ((\A r \in 1..Len(REDDIT_CHANNELS) : rd_listings[r].ok)
         /\ NewestFirst(rd_listings[i].listing)) =>
        \A k \in 1..Len(rd_listings[i].listing) :
          LET post == rd_listings[i].listing[k]
          IN post.created >= today - days_back =>
               /\ strftime(post.created) \in SeqRange(time_window)
               /\ rd_status = "ok"
               /\ \E j \in 1..Len(rd_posts) :
                    /\ rd_posts[j].link = <<"https://www.reddit.com", post.permalink>>
                    /\ rd_posts[j].subreddit = REDDIT_CHANNELS[i]
                    /\ rd_posts[j].date = strftime(post.created)

\* The posts of a listing dated in the time window, and the entries of the
\* result that come from a channel.
InTimeWindow(post) == strftime(post.created) \in SeqRange(time_window)
EntriesOf(i) == {j \in 1..Len(rd_posts) : rd_posts[j].subreddit = REDDIT_CHANNELS[i]}

\* C13: the list fetch_posts returns holds no two entries with the same link;
\* when a channel yields three posts, two inside the window that share one
\* link and a third older than the window, and the other channel none, the
\* list holds exactly one entry.
C13_OneEntryPerLink ==
  rd_status # "init" =>
    /\ \A a, b \in 1..Len(rd_posts) : a # b => rd_posts[a].link # rd_posts[b].link
    /\ \A i \in 1..Len(REDDIT_CHANNELS) :
         LET l == rd_listings[i].listing
         IN (/\ \A r \in 1..Len(REDDIT_CHANNELS) : rd_listings[r].ok
             /\ \A r \in 1..Len(REDDIT_CHANNELS) : r # i => rd_listings[r].listing = <<>>
             /\ Len(l) = 3
             /\ l[1].permalink = l[2].permalink
             /\ InTimeWindow(l[1]) /\ InTimeWindow(l[2])
             /\ l[3].created < today - days_back) =>
              rd_status = "ok" /\ Len(rd_posts) = 1

\* C14: for a non-empty time window and a listing in any order, the posts
\* fetch_posts returns for a channel are exactly the posts of its listing that
\* are dated in the time window, none missing and none extra.
C14_EarlyStopOnlyAnOptimization ==
  (rd_status # "init" /\ time_window # <<>>
     /\ \A r \in 1..Len(REDDIT_CHANNELS) : rd_listings[r].ok) =>
    /\ rd_status = "ok"
    /\ \A i \in 1..Len(REDDIT_CHANNELS) :
         LET l == rd_listings[i].listing
             inside == {k \in 1..Len(l) : InTimeWindow(l[k])}
         IN /\ Cardinality(EntriesOf(i)) = Cardinality(inside)
            /\ \A k \in inside : \E j \in EntriesOf(i) :
                 /\ rd_posts[j].link = <<"https://www.reddit.com", l[k].permalink>>
                 /\ rd_posts[j].date = strftime(l[k].created)

(***************************************************************************)
(* The TechCrunch fetcher.                                                 *)
(***************************************************************************)
TitleNotFound == <<"T", "i", "t", "l", "e", " ", "n", "o", "t", " ", "f", "o", "u", "n", "d">>
SummaryNotFound == <<"S", "u", "m", "m", "a", "r", "y", " ", "n", "o", "t", " ", "f", "o", "u", "n", "d">>
UnknownAuthor == <<"U", "n", "k", "n", "o", "w", "n", " ", "a", "u", "t", "h", "o", "r">>

\* An Optional[int]
NoInt == [none |-> TRUE, val |-> 0]
SomeInt(n) == [none |-> FALSE, val |-> n]

_convert_to_days_ago(input_str) ==
  IF Contains(lower(input_str), <<"h", "o", "u", "r">>) THEN SomeInt(0)
  ELSE IF Contains(lower(input_str), <<"d", "a", "y", "s", " ", "a", "g", "o">>)
  THEN LET match == search_digits(input_str)
       IN IF match # None THEN SomeInt(int(match)) ELSE NoInt
  ELSE NoInt

_convert_to_date(days) ==
  IF days.none THEN None ELSE strftime(today - days.val)

_extract_date(article_html) ==
  LET time_tag == article_html.time_tag
  IN IF ~time_tag.present THEN None
     ELSE LET time_ago == strip(time_tag.text)
              days_ago == _convert_to_days_ago(time_ago)
          IN _convert_to_date(days_ago)

\* str.replace("-", " ")
replace_dash(s) == [i \in 1..Len(s) |-> IF s[i] = "-" THEN " " ELSE s[i]]

\* re.search(r'/author/(.+?)/', author_link): the leftmost '/author/' that is
\* followed by at least one character and then a '/'; group 1 is the shortest.
_extract_author_raises(author_div) == ~author_div.a.present \/ author_div.a.href = None
_extract_author(author_div) ==
  LET author_link == author_div.a.href
      Ends(i) == {j \in (i + 9)..Len(author_link) :
                    /\ author_link[j] = "/"
                    /\ \A k \in (i + 8)..(j - 1) : author_link[k] # "\n"}
      starts == {i \in 1..Len(author_link) :
                   MatchesAt(author_link, i, <<"/", "a", "u", "t", "h", "o", "r", "/">>) /\ Ends(i) # {}}
  IN IF starts = {} THEN UnknownAuthor
     ELSE LET i == CHOOSE a \in starts : \A b \in starts : a <= b
              j == CHOOSE a \in Ends(i) : \A b \in Ends(i) : a <= b
          IN replace_dash(SubSeq(author_link, i + 8, j - 1))

\* parse_article raises when the title heading has no <a> (None.text), when an
\* <a> it subscripts has no href, or when the author card has no <a>.
tc_parse_article_raises(article_html) ==
  \/ /\ article_html.title_tag.present
     /\ (~article_html.title_tag.a.present \/ article_html.title_tag.a.href = None)
  \/ /\ article_html.author_div.present
     /\ _extract_author_raises(article_html.author_div)

tc_parse_article(article_html) ==
  LET title_tag == article_html.title_tag
      title == IF title_tag.present THEN title_tag.a.text ELSE TitleNotFound
      link == IF title_tag.present THEN title_tag.a.href ELSE None
      author_div == article_html.author_div
      author == IF author_div.present THEN _extract_author(author_div) ELSE None
      summary == article_html.summary
      snippet == IF summary.present THEN strip(summary.text) ELSE SummaryNotFound
      date == _extract_date(article_html)
  IN Article(title, link, author, snippet, date)

\* [self.parser.parse_article(article_html) for article_html in articles_html]
tc_parse_articles(articles_html) ==
  [k \in 1..Len(articles_html) |-> tc_parse_article(articles_html[k])]

\* The relative ages the page shows and what they say.
TCAges == {
  [text |-> <<"1", " ", "d", "a", "y", " ", "a", "g", "o">>, unit |-> "day", n |-> 1],
  [text |-> <<"2", " ", "d", "a", "y", "s", " ", "a", "g", "o">>, unit |-> "day", n |-> 2],
  [text |-> <<"3", " ", "d", "a", "y", "s", " ", "a", "g", "o">>, unit |-> "day", n |-> 3],
  [text |-> <<"\n", "2", " ", "d", "a", "y", "s", " ", "a", "g", "o", " ">>, unit |-> "day", n |-> 2],
  [text |-> <<"5", " ", "h", "o", "u", "r", "s", " ", "a", "g", "o">>, unit |-> "hour", n |-> 5],
  [text |-> <<"1", " ", "h", "o", "u", "r", " ", "a", "g", "o">>, unit |-> "hour", n |-> 1],
  [text |-> <<"3", "0", " ", "m", "i", "n", "s", " ", "a", "g", "o">>, unit |-> "minute", n |-> 30]}

AgeSaid(text) == CHOOSE a \in TCAges : a.text = text

NoTag == [present |-> FALSE, text |-> <<>>]
TextTag(text) == [present |-> TRUE, text |-> text]
NoAnchor == [present |-> FALSE, text |-> <<>>, href |-> None]
Anchor(text, href) == [present |-> TRUE, text |-> text, href |-> href]
NoHeading == [present |-> FALSE, a |-> NoAnchor]
Heading(a) == [present |-> TRUE, a |-> a]
AuthorHref == <<"/", "a", "u", "t", "h", "o", "r", "/", "a", "-", "b", "/">>

TCBlock(title_tag, author_div, summary, time_tag) ==
  [title_tag |-> title_tag, author_div |-> author_div, summary |-> summary,
   time_tag |-> time_tag]

\* Blocks with a title heading that links to the article.
TCGoodBlocks ==
  {TCBlock(Heading(Anchor(TitleEn, Link1)), Heading(Anchor(<<>>, AuthorHref)),
           TextTag(<<" ", "s", " ">>), TextTag(a.text)) : a \in TCAges}
  \cup {TCBlock(Heading(Anchor(TitleEn, Link2)), NoHeading, NoTag, NoTag),
        TCBlock(Heading(Anchor(TitleEn, Link2)), Heading(Anchor(<<>>, Link1)),
                NoTag, TextTag(<<"2", " ", "d", "a", "y", "s", " ", "a", "g", "o">>))}

\* Blocks without a title heading, or with a title heading without a link.
TCNoTitleBlock == TCBlock(NoHeading, NoHeading, TextTag(<<"s">>), TextTag(<<"5", " ", "h", "o", "u", "r", "s", " ", "a", "g", "o">>))
TCNoAnchorBlock == TCBlock(Heading(NoAnchor), NoHeading, TextTag(<<"s">>), TextTag(<<"5", " ", "h", "o", "u", "r", "s", " ", "a", "g", "o">>))
TCMalformedBlocks == {TCNoTitleBlock, TCNoAnchorBlock}

\* Blocks with other defects: an <a> without href, an author card without <a>.
TCDefectBlocks ==
  {TCBlock(Heading(Anchor(TitleEn, None)), NoHeading, NoTag, TextTag(<<"5", " ", "h", "o", "u", "r", "s", " ", "a", "g", "o">>)),
   TCBlock(Heading(Anchor(TitleEn, Link1)), Heading(NoAnchor), NoTag, TextTag(<<"5", " ", "h", "o", "u", "r", "s", " ", "a", "g", "o">>))}

TCBlocks == TCGoodBlocks \cup TCMalformedBlocks \cup TCDefectBlocks

\* fetch_page: the page, or an HTTP error (raise_for_status).
TCResponses ==
  {[ok |-> TRUE, articles_html |-> p] : p \in SeqsUpTo(TCBlocks, MaxBlocks)}
  \cup {[ok |-> FALSE, articles_html |-> <<>>]}

InitTechCrunch ==
  /\ today \in Todays
  /\ days_back \in 0..MaxDaysBack
  /\ DedupeIdle /\ WindowIdle /\ RedditIdle /\ MediumParserIdle /\ MediumIdle
  /\ ReportIdle /\ MainIdle /\ YouTubeIdle /\ RunsIdle
  /\ tc_response \in TCResponses
  /\ tc_status = "init"
  /\ tc_articles = <<>>

\* get_articles: fetch the page, parse every block, filter by date.
GetArticles ==
  /\ tc_status = "init"
  /\ IF \/ ~tc_response.ok
        \/ \E k \in 1..Len(tc_response.articles_html) :
             tc_parse_article_raises(tc_response.articles_html[k])
     THEN tc_status' = "raised" /\ tc_articles' = <<>>
     ELSE /\ tc_status' = "ok"
          /\ tc_articles' = _filter_articles(tc_parse_articles(tc_response.articles_html))
  /\ UNCHANGED <<tc_response, commonVars, outsideTechCrunch>>

NextTechCrunch == GetArticles

SpecTechCrunch == InitTechCrunch /\ [][NextTechCrunch]_vars

\* C6: on a page of well-formed blocks, an article whose age text says N >= 1
\* days (the singular "1 day ago" included) is dated today - N and returned
\* when days_back >= N, and an article whose age is in hours or minutes is
\* dated today and returned.
C6_RelativeAgeInclusive ==
  (tc_status # "init" /\ tc_response.ok
     /\ \A k \in 1..Len(tc_response.articles_html) :
          tc_response.articles_html[k] \in TCGoodBlocks) =>
    /\ tc_status = "ok"
    /\ \A k \in 1..Len(tc_response.articles_html) :
         LET block == tc_response.articles_html[k]
             said == AgeSaid(block.time_tag.text)
             days == IF said.unit = "day" THEN said.n ELSE 0
         IN (block.time_tag.present /\ days_back >= days) =>
              \E j \in 1..Len(tc_articles) :
                /\ tc_articles[j].link = block.title_tag.a.href
                /\ tc_articles[j].date = strftime(today - days)

\* C9: a page whose blocks are well-formed or lack the title heading or its
\* link is processed without raising, and no returned article lacks its link
\* or carries the placeholder title.
C9_MalformedBlockYieldsNoRecord ==
  (tc_status # "init" /\ tc_response.ok
     /\ \A k \in 1..Len(tc_response.articles_html) :
          tc_response.articles_html[k] \in TCGoodBlocks \cup TCMalformedBlocks) =>
    /\ tc_status = "ok"
    /\ \A j \in 1..Len(tc_articles) :
         tc_articles[j].link # None /\ tc_articles[j].title # TitleNotFound

(***************************************************************************)
(* The Medium parser (mediumcom_search.ArticleParser).  An <article> block *)
(* is the lists BeautifulSoup's find_all yields, in document order: the    *)
(* stripped texts of its <h2> and <h3>, its <div> with their aria-label    *)
(* and data-href attributes and stripped text, the src of its <img>.       *)
(***************************************************************************)
Div(aria_label, data_href, text) ==
  [aria_label |-> aria_label, data_href |-> data_href, text |-> text]

ArticleBlock(h2s, divs, h3s, imgs) ==
  [h2s |-> h2s, divs |-> divs, h3s |-> h3s, imgs |-> imgs]

IsHexDigit(c) == IsDigit(c) \/ c \in {"a", "b", "c", "d", "e", "f", "A", "B", "C", "D", "E", "F"}
HexValue(c) ==
  IF IsDigit(c) THEN DigitValue(c)
  ELSE CASE c \in {"a", "A"} -> 10 [] c \in {"b", "B"} -> 11 [] c \in {"c", "C"} -> 12
         [] c \in {"d", "D"} -> 13 [] c \in {"e", "E"} -> 14 [] c \in {"f", "F"} -> 15

\* chr(): letters, digits and the space; any other code point is the one
\* character "?", which no pattern of the parsers matches.
chr(n) ==
  IF n \in 65..90 THEN UpperChars[n - 64]
  ELSE IF n \in 97..122 THEN LowerChars[n - 96]
  ELSE IF n \in 48..57 THEN DigitChars[n - 47]
  ELSE IF n = 32 THEN " "
  ELSE "?"

\* re.sub(r'\\u([0-9a-fA-F]{4})', replace_unicode, text)
RECURSIVE sub_unicode_escapes(_)
sub_unicode_escapes(text) ==
  IF text = <<>> THEN <<>>
  ELSE IF /\ Len(text) >= 6
          /\ text[1] = "\\" /\ text[2] = "u"
          /\ \A k \in 3..6 : IsHexDigit(text[k])
  THEN <<chr(4096 * HexValue(text[3]) + 256 * HexValue(text[4])
             + 16 * HexValue(text[5]) + HexValue(text[6]))>>
       \o sub_unicode_escapes(SubSeq(text, 7, Len(text)))
  ELSE <<Head(text)>> \o sub_unicode_escapes(Tail(text))

convert_unicode_escapes(text) ==
  IF text = None THEN text ELSE sub_unicode_escapes(text)

NonEmpty(x) == Len(x) > 0

extract_title(article) ==
  LET h2_texts == SelectSeq(article.h2s, NonEmpty)
      aria_labels == [k \in 1..Len(article.divs) |-> article.divs[k].aria_label]
      IsStr(x) == x # None /\ Len(x) > 0
      titles == SelectSeq(aria_labels, IsStr) \o h2_texts
      title == IF titles # <<>> THEN titles[1] ELSE None
  IN convert_unicode_escapes(title)

extract_links(article) ==
  LET HasHref(a) == Truthy(a.data_href)
      with_href == SelectSeq(article.divs, HasHref)
      data_href == [k \in 1..Len(with_href) |-> with_href[k].data_href]
      IsLink(x) == Len(x) > 0 /\ Contains(x, HTTPS)
      links == SelectSeq(data_href, IsLink)
  IN IF links # <<>> THEN links[1] ELSE None

\* extract_image calls img.lower() on every src: an <img> without src raises.
extract_image_raises(article) == \E k \in 1..Len(article.imgs) : article.imgs[k] = None

\* list(set(srcs)) is in no defined order, so imgs[0] is any of the srcs with
\* an image extension: the set of the values extract_image can return.
extract_image(article) ==
  LET srcs == SeqRange(article.imgs)
      imgs == {img \in srcs : \/ Contains(lower(img), <<".", "j", "p", "g">>)
                              \/ Contains(lower(img), <<".", "p", "n", "g">>)
                              \/ Contains(lower(img), <<".", "j", "p", "e", "g">>)}
  IN IF imgs # {} THEN imgs ELSE {None}

extract_snippet(article) ==
  LET h3_texts == SelectSeq(article.h3s, NonEmpty)
      snippet == IF h3_texts # <<>> THEN h3_texts[1] ELSE None
  IN convert_unicode_escapes(snippet)

convert_to_days_ago(input_str) ==
  IF lower(input_str) = <<"j", "u", "s", "t", " ", "n", "o", "w">> THEN <<"0", "d", " ", "a", "g", "o">>
  ELSE IF Contains(lower(input_str), <<"h", " ", "a", "g", "o">>) THEN <<"0", "d", " ", "a", "g", "o">>
  ELSE lower(input_str)

convert_to_date(days) == strftime(today - days)

\* The length of the match of r'\b\d{1,2}[hd] ago' at position i, 0 without one.
AgeMatchLen(s, i) ==
  IF ~(i <= Len(s) /\ IsDigit(s[i]) /\ (i = 1 \/ ~IsWordChar(s[i - 1]))) THEN 0
  ELSE IF /\ i + 2 <= Len(s) /\ IsDigit(s[i + 1]) /\ s[i + 2] \in {"h", "d"}
          /\ MatchesAt(s, i + 3, <<" ", "a", "g", "o">>)
  THEN 7
  ELSE IF i + 1 <= Len(s) /\ s[i + 1] \in {"h", "d"} /\ MatchesAt(s, i + 2, <<" ", "a", "g", "o">>)
  THEN 6
  ELSE 0

\* re.findall(pattern, input_str), scanning from position i
RECURSIVE findall_age(_, _)
findall_age(s, i) ==
  IF i > Len(s) THEN <<>>
  ELSE IF AgeMatchLen(s, i) > 0
  THEN <<SubSeq(s, i, i + AgeMatchLen(s, i) - 1)>> \o findall_age(s, i + AgeMatchLen(s, i))
  ELSE findall_age(s, i + 1)

extract_post_age(input_str) ==
  LET matches == findall_age(input_str, 1)
  IN [k \in 1..Len(matches) |-> convert_to_days_ago(matches[k])]

\* re.search(r'(\d+)d ago', age).group(1): the leftmost run of digits that is
\* followed by 'd ago', None without one.
search_d_ago(age) ==
  LET starts == {i \in 1..Len(age) :
                   IsDigit(age[i]) /\ MatchesAt(age, DigitRunEnd(age, i) + 1, <<"d", " ", "a", "g", "o">>)}
  IN IF starts = {} THEN None
     ELSE LET i == CHOOSE a \in starts : \A b \in starts : a <= b
          IN SubSeq(age, i, DigitRunEnd(age, i))

\* [f(age) for div_text in div_texts for age in extract_post_age(div_text) if age]
RECURSIVE ages_of(_)
ages_of(div_texts) ==
  IF div_texts = <<>> THEN <<>>
  ELSE LET found == SelectSeq(extract_post_age(Head(div_texts)), NonEmpty)
       IN [k \in 1..Len(found) |-> convert_to_days_ago(found[k])]
          \o ages_of(Tail(div_texts))

\* extract_post_date up to age_in_days: an Optional[int], none where the
\* function goes on to return None.
age_in_days_of(article) ==
  LET HasText(d) == Len(d.text) > 0
      divs == SelectSeq(article.divs, HasText)
      div_texts == [k \in 1..Len(divs) |-> convert_to_days_ago(divs[k].text)]
      ages == ages_of(div_texts)
      age == IF ages # <<>> THEN ages[1] ELSE None
  IN IF Truthy(age)
     THEN LET match == search_d_ago(age)
          IN IF match # None THEN SomeInt(int(match)) ELSE NoInt
     ELSE NoInt

\* What parse_article's extractions make of a block, the clock aside.
extractions(article) ==
  [title |-> extract_title(article), link |-> extract_links(article),
   img_raises |-> extract_image_raises(article), img |-> extract_image(article),
   snippet |-> extract_snippet(article), age_in_days |-> age_in_days_of(article)]

\* The <article> blocks a page source can hold.
TitleEscaped == <<"\\", "u", "0", "0", "4", "8", "i">>
ImgJpg == <<"a", ".", "J", "P", "G">>
ImgPng == <<"b", ".", "p", "n", "g">>
ImgGif == <<"c", ".", "g", "i", "f">>
BlockToday ==
  ArticleBlock(<<>>, <<Div(TitleEn, Link1, <<"5", "h", " ", "a", "g", "o">>)>>, <<<<"s">>>>, <<>>)
BlockYesterday ==
  ArticleBlock(<<<<>>, TitleEscaped>>, <<Div(None, Link2, <<"1", "d", " ", "a", "g", "o">>)>>,
               <<<<>>, <<"s">>>>, <<ImgGif, ImgJpg, ImgPng>>)
BlockOld ==
  ArticleBlock(<<TitleEn>>, <<Div(None, Link1, <<"1", "2", "d", " ", "a", "g", "o">>)>>, <<<<"s">>>>, <<ImgJpg>>)
BlockNoTitle ==
  ArticleBlock(<<<<>>>>, <<Div(<<>>, Link1, <<"5", "h", " ", "a", "g", "o">>)>>, <<<<"s">>>>, <<ImgJpg>>)
BlockNoLink ==
  ArticleBlock(<<TitleEn>>, <<Div(None, <<"h", "t", "t", "p", ":", "/", "/", "m", ".", "c", "o", "/", "3">>, <<"5", "h", " ", "a", "g", "o">>)>>, <<<<"s">>>>, <<ImgJpg>>)
BlockNoSnippet ==
  ArticleBlock(<<TitleEn>>, <<Div(None, Link2, <<"5", "h", " ", "a", "g", "o">>)>>, <<<<>>>>, <<ImgJpg>>)
BlockNoDate ==
  ArticleBlock(<<TitleEn>>, <<Div(None, Link2, <<"A", "l">>)>>, <<<<"s">>>>, <<>>)
BlockGerman ==
  ArticleBlock(<<TitleDe>>, <<Div(None, Link2, <<"5", "h", " ", "a", "g", "o">>)>>, <<<<"s">>>>, <<>>)
BlockNoFeatures ==
  ArticleBlock(<<TitleNoFeatures>>, <<Div(None, Link1, <<"5", "h", " ", "a", "g", "o">>)>>, <<<<"s">>>>, <<>>)
BlockImgNoSrc ==
  ArticleBlock(<<TitleEn>>, <<Div(None, Link1, <<"5", "h", " ", "a", "g", "o">>)>>, <<<<"s">>>>, <<None>>)

MediumBlocks ==
  {BlockToday, BlockYesterday, BlockOld, BlockNoTitle, BlockNoLink, BlockNoSnippet,
   BlockNoDate, BlockGerman, BlockNoFeatures, BlockImgNoSrc}

\* The extractions of the blocks of the page sources are computed once.
extractions_of_MediumBlocks == [article \in MediumBlocks |-> extractions(article)]
extracted(article) ==
  IF article \in MediumBlocks THEN extractions_of_MediumBlocks[article]
  ELSE extractions(article)

\* return ArticleParser.convert_to_date(age_in_days), or None
post_date(age_in_days) ==
  IF age_in_days.none THEN None ELSE convert_to_date(age_in_days.val)

extract_post_date(article) == post_date(extracted(article).age_in_days)

parse_article_raises(article) == extracted(article).img_raises

\* A parse_article that does not require the snippet.
parse_article_without_snippet_test(article, topic) ==
  LET e == extracted(article)
      title == e.title
      link == e.link
      snippet == e.snippet
      date == post_date(e.age_in_days)
  IN IF Truthy(title) /\ Truthy(link)
     THEN {<<MediumArticle(title, link, img, snippet, date, topic)>> : img \in e.img}
     ELSE {<<>>}

\* parse_article: the values it can return, <<>> for None and <<article>> for
\* an article; there are several when the block has several images.
parse_extracted(e, topic) ==
  LET title == e.title
      link == e.link
      snippet == e.snippet
      date == post_date(e.age_in_days)
  IN IF Truthy(title) /\ Truthy(link) /\ Truthy(snippet)
     THEN {<<MediumArticle(title, link, img, snippet, date, topic)>> : img \in e.img}
     ELSE {<<>>}

parse_article(article, topic) == parse_extracted(extracted(article), topic)

\* The texts of the <div> of a block and the age they show: "now", "hours",
\* "days" (n days), or "none" when the text holds no age of the forms
\* 'just now', 'Nh ago', 'Nd ago'.
MediumDivTexts == {
  [text |-> <<"j", "u", "s", "t", " ", "n", "o", "w">>, age |-> "now", n |-> 0],
  [text |-> <<"J", "u", "s", "t", " ", "n", "o", "w">>, age |-> "now", n |-> 0],
  [text |-> <<"5", "h", " ", "a", "g", "o">>, age |-> "hours", n |-> 5],
  [text |-> <<"1", "2", "h", " ", "a", "g", "o">>, age |-> "hours", n |-> 12],
  [text |-> <<"A", "l", " ", "2", "3", "h", " ", "a", "g", "o">>, age |-> "hours", n |-> 23],
  [text |-> <<"1", "d", " ", "a", "g", "o">>, age |-> "days", n |-> 1],
  [text |-> <<"2", "d", " ", "a", "g", "o">>, age |-> "days", n |-> 2],
  [text |-> <<"1", "2", "d", " ", "a", "g", "o">>, age |-> "days", n |-> 12],
  [text |-> <<"A", "l", ",", " ", "3", "d", " ", "a", "g", "o">>, age |-> "days", n |-> 3],
  [text |-> <<"A", "l">>, age |-> "none", n |-> 0],
  [text |-> <<"A", "l", "2", "d", " ", "a", "g", "o">>, age |-> "none", n |-> 0],
  [text |-> <<"3", " ", "d", "a", "y", "s", " ", "a", "g", "o">>, age |-> "none", n |-> 0],
  [text |-> <<"J", "a", "n", " ", "5">>, age |-> "none", n |-> 0],
  [text |-> <<"1", " ", "m", "o", "n", "t", "h", " ", "a", "g", "o">>, age |-> "none", n |-> 0],
  [text |-> <<>>, age |-> "none", n |-> 0]}

AgeShown(text) == CHOOSE a \in MediumDivTexts : a.text = text

\* A block with title, link and snippet whose <div> have the given texts.
RECURSIVE plain_divs(_)
plain_divs(texts) ==
  IF texts = <<>> THEN <<>>
  ELSE <<Div(None, None, Head(texts))>> \o plain_divs(Tail(texts))
DatedBlock(title, texts) ==
  ArticleBlock(<<title>>, <<Div(None, Link1, <<>>)>> \o plain_divs(texts), <<<<"s">>>>, <<>>)

InitMediumParser ==
  /\ today \in Todays
  /\ days_back \in 0..MaxDaysBack
  /\ DedupeIdle /\ WindowIdle /\ RedditIdle /\ TechCrunchIdle /\ MediumIdle
  /\ ReportIdle /\ MainIdle /\ YouTubeIdle /\ RunsIdle
  /\ \E texts \in SeqsUpTo({a.text : a \in MediumDivTexts}, MaxDivs) :
       mp_article = DatedBlock(TitleEn, texts)
  /\ mp_parsed = <<>>
  /\ mp_valid = FALSE
  /\ mp_pc = "init"
  /\ mp_post_age = <<>>

\* One block of process_current_page: parse_article, then is_valid_article
\* on what it returned.
ParseAndValidate ==
  /\ mp_pc = "init"
  /\ ~parse_article_raises(mp_article)
  /\ \E parsed \in parse_article(mp_article, MEDIUM_TOPICS[1]) :
       /\ mp_parsed' = parsed
       /\ mp_valid' = (parsed # <<>> /\ is_valid_article(parsed[1]))
  /\ mp_pc' = "done"
  /\ UNCHANGED <<mp_article, mp_post_age, commonVars, outsideMediumParser>>

NextMediumParser == ParseAndValidate

SpecMediumParser == InitMediumParser /\ [][NextMediumParser]_vars

\* The ages the <div> texts of the parsed block show, in document order.
AgesShown ==
  LET texts == [k \in 1..Len(mp_article.divs) |-> mp_article.divs[k].text]
      IsAge(t) == AgeShown(t).age # "none"
      shown == SelectSeq(texts, IsAge)
  IN [k \in 1..Len(shown) |-> AgeShown(shown[k])]

\* C7: a block whose one age text is 'just now' or 'Nh ago' is dated today,
\* one whose age text is 'Nd ago' is dated today - N, and a block without an
\* age text gets no date and is not admitted by is_valid_article.
C7_MediumRelativeAge ==
  mp_pc = "done" =>
    /\ mp_parsed # <<>>
    /\ Len(AgesShown) = 1 =>
         mp_parsed[1].date =
           strftime(today - (IF AgesShown[1].age = "days" THEN AgesShown[1].n ELSE 0))
    /\ Len(AgesShown) = 0 => (mp_parsed[1].date = None /\ ~mp_valid)

(***************************************************************************)
(* The age of a block with several age texts: extract_post_date of         *)
(* mediumcom_search and extract_post_age of mediumposts_news.              *)
(***************************************************************************)
\* LatestMediumPosts.replace_just_now
replace_just_now(input_str) ==
  IF lower(input_str) = <<"j", "u", "s", "t", " ", "n", "o", "w">>
  THEN <<"0", "h", " ", "a", "g", "o">> ELSE input_str

\* LatestMediumPosts.extract_time_ago
extract_time_ago(input_str) == findall_age(input_str, 1)

RECURSIVE time_ago_of(_)
time_ago_of(div_texts) ==
  IF div_texts = <<>> THEN <<>>
  ELSE extract_time_ago(Head(div_texts)) \o time_ago_of(Tail(div_texts))

\* LatestMediumPosts.extract_post_age: the values it can return.  ages[0] is
\* taken from list(set(ages)), whose order is the iteration order of a set of
\* str: it follows the hashes, which change with the hash seed of the run.
LatestMediumPosts_extract_post_age(article) ==
  LET div_texts == [k \in 1..Len(article.divs) |-> replace_just_now(article.divs[k].text)]
      ages == {x \in SeqRange(time_ago_of(div_texts)) : Len(x) > 0}
  IN IF ages # {} THEN ages ELSE {None}

\* Texts of a <div> with several ages or an age inside a longer text, each
\* with its first match of the age pattern, None without a match.
AgeTexts == {
  [text |-> <<"2", "d", " ", "a", "g", "o">>, first |-> <<"2", "d", " ", "a", "g", "o">>],
  [text |-> <<"5", "h", " ", "a", "g", "o">>, first |-> <<"5", "h", " ", "a", "g", "o">>],
  [text |-> <<"2", "d", " ", "a", "g", "o", " ", "5", "h", " ", "a", "g", "o">>, first |-> <<"2", "d", " ", "a", "g", "o">>],
  [text |-> <<"5", "h", " ", "a", "g", "o", " ", "2", "d", " ", "a", "g", "o">>, first |-> <<"5", "h", " ", "a", "g", "o">>],
  [text |-> <<"1", "d", " ", "a", "g", "o", ",", " ", "2", "d", " ", "a", "g", "o">>, first |-> <<"1", "d", " ", "a", "g", "o">>],
  [text |-> <<"A", "l", " ", "3", "d", " ", "a", "g", "o">>, first |-> <<"3", "d", " ", "a", "g", "o">>],
  [text |-> <<"A", "l">>, first |-> None]}

InitPostAge ==
  /\ today \in Todays
  /\ days_back \in 0..MaxDaysBack
  /\ DedupeIdle /\ WindowIdle /\ RedditIdle /\ TechCrunchIdle /\ MediumIdle
  /\ ReportIdle /\ MainIdle /\ YouTubeIdle /\ RunsIdle
  /\ \E texts \in SeqsUpTo({a.text : a \in AgeTexts}, MaxDivs) :
       mp_article = DatedBlock(TitleEn, texts)
  /\ mp_parsed = <<>>
  /\ mp_valid = FALSE
  /\ mp_pc = "init"
  /\ mp_post_age = <<>>

\* post_age = self.extract_post_age(article) of mediumposts_news
ExtractPostAge ==
  /\ mp_pc \in {"init", "done"}
  /\ mp_post_age = <<>>
  /\ \E age \in LatestMediumPosts_extract_post_age(mp_article) : mp_post_age' = <<age>>
  /\ UNCHANGED <<mp_article, mp_parsed, mp_valid, mp_pc, commonVars, outsideMediumParser>>

NextPostAge == ParseAndValidate \/ ExtractPostAge

SpecPostAge == InitPostAge /\ [][NextPostAge]_vars

\* The first match of the age pattern in the <div> texts of the parsed block,
\* in document order; None without a match.
FirstAgeMatch ==
  LET first == [k \in 1..Len(mp_article.divs) |->
                  IF mp_article.divs[k].text = <<>> THEN None
                  ELSE (CHOOSE a \in AgeTexts : a.text = mp_article.divs[k].text).first]
      IsMatch(f) == f # None
      found == SelectSeq(first, IsMatch)
  IN IF found = <<>> THEN None ELSE found[1]

\* The date of an age 'Nh ago' or 'Nd ago'.
DateOfAge(age) ==
  IF age = None THEN None
  ELSE IF age[Len(age) - 4] = "h" THEN strftime(today)
  ELSE strftime(today - int(SubSeq(age, 1, Len(age) - 5)))

\* C21: of several age texts in a block the first match in document order
\* wins: extract_post_date dates the block by it, and extract_post_age of
\* mediumposts_news returns it, whatever matches follow.
C21_FirstAgeMatchWins ==
  /\ mp_pc = "done" => (mp_parsed # <<>> /\ mp_parsed[1].date = DateOfAge(FirstAgeMatch))
  /\ mp_post_age # <<>> => mp_post_age[1] = FirstAgeMatch

(***************************************************************************)
(* MediumNewsFetcher.fetch_articles: per topic, the scroll loop over the   *)
(* batches of the page, then the release of the driver and the             *)
(* deduplication.                                                          *)
(***************************************************************************)
max_consecutive_no_new == 3

\* process_current_page raises when parse_article or is_valid_article raises
\* on a block of the page.
process_current_page_raises(articles, topic) ==
  \E k \in 1..Len(articles) :
    \/ parse_article_raises(articles[k])
    \/ \E parsed \in parse_article(articles[k], topic) :
         parsed # <<>> /\ is_valid_article_raises(parsed[1])

\* A loop over the blocks that does not record the links it reports as new.
RECURSIVE process_current_page_loop_without_seen_links(_, _, _, _)
process_current_page_loop_without_seen_links(articles, topic, new_articles, seen) ==
  IF articles = <<>> THEN {[new_articles |-> new_articles, seen_links |-> seen]}
  ELSE UNION {
    IF /\ parsed_article # <<>>
       /\ is_valid_article(parsed_article[1])
       /\ parsed_article[1].link \notin seen
    THEN process_current_page_loop_without_seen_links(Tail(articles), topic,
           Append(new_articles, parsed_article[1]), seen)
    ELSE process_current_page_loop_without_seen_links(Tail(articles), topic,
           new_articles, seen)
    : parsed_article \in parse_article(Head(articles), topic)}

\* The loop of process_current_page over the blocks: the set of the pairs
\* (new_articles, seen_links) it can end with.
RECURSIVE process_current_page_loop(_, _, _, _)
process_current_page_loop(articles, topic, new_articles, seen) ==
  IF articles = <<>> THEN {[new_articles |-> new_articles, seen_links |-> seen]}
  ELSE UNION {
    IF /\ parsed_article # <<>>
       /\ is_valid_article(parsed_article[1])
       /\ parsed_article[1].link \notin seen
    THEN process_current_page_loop(Tail(articles), topic,
           Append(new_articles, parsed_article[1]),
           seen \cup {parsed_article[1].link})
    ELSE process_current_page_loop(Tail(articles), topic, new_articles, seen)
    : parsed_article \in parse_article(Head(articles), topic)}

process_current_page(articles, topic, seen) ==
  process_current_page_loop(articles, topic, <<>>, seen)

PageSources == SeqsUpTo(MediumBlocks, MaxPageBlocks)

DAYS_BACK == 1
NewYearsDay == 31

\* The state after MediumNewsFetcher.__init__ in main: the driver is running.
Init ==
  /\ today = NewYearsDay
  /\ days_back = DAYS_BACK
  /\ DedupeIdle /\ WindowIdle /\ RedditIdle /\ TechCrunchIdle /\ MediumParserIdle
  /\ ReportIdle /\ MainIdle /\ YouTubeIdle /\ RunsIdle
  /\ md_pc = "fetch_page"
  /\ md_topic = 1
  /\ md_page = <<>>
  /\ seen_links = {}
  /\ consecutive_no_new = 0
  /\ all_articles = <<>>
  /\ driver = "open"
  /\ md_articles = <<>>
  /\ md_batches = <<>>
  /\ md_batch_count = 0

\* The head of the for loop: load the archive page of the topic (a timeout of
\* the wait is caught) and reset seen_links and the counter.
FetchPage ==
  /\ md_pc = "fetch_page"
  /\ md_pc' = "while"
  /\ seen_links' = {}
  /\ consecutive_no_new' = 0
  /\ md_batches' = <<>>
  /\ md_batch_count' = 0
  /\ UNCHANGED <<md_topic, md_page, all_articles, driver, md_articles, commonVars,
                 outsideMedium>>

\* The while test passes and process_current_page reads the page source and
\* finds its <article> blocks.
GetPageSource ==
  /\ md_pc = "while"
  /\ consecutive_no_new < max_consecutive_no_new
  /\ md_page' \in PageSources
  /\ md_pc' = "process"
  /\ UNCHANGED <<md_topic, seen_links, consecutive_no_new, all_articles, driver,
                 md_articles, md_batches, md_batch_count, commonVars,
                 outsideMedium>>

\* The last three entries of the record of the batches.
LastBatches(batches) ==
  IF Len(batches) <= 3 THEN batches ELSE SubSeq(batches, Len(batches) - 2, Len(batches))

\* An iteration that counts the batches without a new article but never
\* resets the count.
ProcessCurrentPage_without_reset ==
  /\ md_pc = "process"
  /\ ~process_current_page_raises(md_page, MEDIUM_TOPICS[md_topic])
  /\ \E r \in process_current_page(md_page, MEDIUM_TOPICS[md_topic], seen_links) :
       /\ seen_links' = r.seen_links
       /\ md_batches' = LastBatches(Append(md_batches, r.new_articles # <<>>))
       /\ md_batch_count' = md_batch_count + 1
       /\ IF r.new_articles # <<>>
          THEN /\ all_articles' = all_articles \o r.new_articles
               /\ consecutive_no_new' = consecutive_no_new
          ELSE /\ all_articles' = all_articles
               /\ consecutive_no_new' = consecutive_no_new + 1
  /\ md_page' = <<>>
  /\ md_pc' = "while"
  /\ UNCHANGED <<md_topic, driver, md_articles, commonVars, outsideMedium>>

\* The rest of the iteration: the loop of process_current_page over the
\* blocks, the count of the batch, the scroll.
ProcessCurrentPage ==
  /\ md_pc = "process"
  /\ ~process_current_page_raises(md_page, MEDIUM_TOPICS[md_topic])
  /\ \E r \in process_current_page(md_page, MEDIUM_TOPICS[md_topic], seen_links) :
       /\ seen_links' = r.seen_links
       /\ md_batches' = LastBatches(Append(md_batches, r.new_articles # <<>>))
       /\ md_batch_count' = md_batch_count + 1
       /\ IF r.new_articles # <<>>
          THEN /\ all_articles' = all_articles \o r.new_articles
               /\ consecutive_no_new' = 0
          ELSE /\ all_articles' = all_articles
               /\ consecutive_no_new' = consecutive_no_new + 1
  /\ md_page' = <<>>
  /\ md_pc' = "while"
  /\ UNCHANGED <<md_topic, driver, md_articles, commonVars, outsideMedium>>

\* parse_article or is_valid_article raises on a block: the exception leaves
\* fetch_articles.
ProcessCurrentPageRaises ==
  /\ md_pc = "process"
  /\ process_current_page_raises(md_page, MEDIUM_TOPICS[md_topic])
  /\ md_pc' = "raised"
  /\ UNCHANGED <<md_topic, md_page, seen_links, consecutive_no_new, all_articles,
                 driver, md_articles, md_batches, md_batch_count, commonVars,
                 outsideMedium>>

\* The while test fails: on to the next topic, or out of the for loop.
TopicDone ==
  /\ md_pc = "while"
  /\ consecutive_no_new >= max_consecutive_no_new
  /\ IF md_topic < Len(MEDIUM_TOPICS)
     THEN md_topic' = md_topic + 1 /\ md_pc' = "fetch_page"
     ELSE md_topic' = md_topic /\ md_pc' = "quit"
  /\ UNCHANGED <<md_page, seen_links, consecutive_no_new, all_articles, driver,
                 md_articles, md_batches, md_batch_count, commonVars,
                 outsideMedium>>

\* self.driver_manager.quit(); return self.remove_duplicate_articles(all_articles)
QuitAndReturn ==
  /\ md_pc = "quit"
  /\ driver' = "quit"
  /\ md_articles' = remove_duplicate_articles(all_articles)
  /\ md_pc' = "done"
  /\ UNCHANGED <<md_topic, md_page, seen_links, consecutive_no_new, all_articles,
                 md_batches, md_batch_count, commonVars,
                 outsideMedium>>

Next ==
  \/ FetchPage
  \/ GetPageSource
  \/ ProcessCurrentPage
  \/ ProcessCurrentPageRaises
  \/ TopicDone
  \/ QuitAndReturn

Spec == Init /\ [][Next]_vars

\* What a complete block shows: a title (aria-label or <h2>), an https link,
\* a snippet (<h3>).
ShowsTitle(b) ==
  \/ \E k \in 1..Len(b.h2s) : b.h2s[k] # <<>>
  \/ \E k \in 1..Len(b.divs) : b.divs[k].aria_label \notin {None, <<>>}
ShowsLink(b) ==
  \E k \in 1..Len(b.divs) : b.divs[k].data_href # None /\ Contains(b.divs[k].data_href, HTTPS)
ShowsSnippet(b) == \E k \in 1..Len(b.h3s) : b.h3s[k] # <<>>
LinkShown(b) ==
  b.divs[CHOOSE k \in 1..Len(b.divs) :
           b.divs[k].data_href # None /\ Contains(b.divs[k].data_href, HTTPS)].data_href
\* The block is dated inside the window and its title is English.
ShowsValid(b) ==
  /\ \E k \in 1..Len(b.divs) :
       /\ AgeShown(b.divs[k].text).age # "none"
       /\ days_back >= (IF AgeShown(b.divs[k].text).age = "days"
                        THEN AgeShown(b.divs[k].text).n ELSE 0)
  /\ \E k \in 1..Len(b.h2s) : b.h2s[k] \in {TitleEn, TitleEscaped}

\* C8: every article fetch_articles collects or returns has a non-empty
\* title, link and snippet (a block missing one of them adds nothing), and a
\* block with all three, dated inside the window, with an English title and
\* without an image is collected.
C8_RequiredFieldsPresent ==
  [][/\ \A k \in 1..Len(all_articles') :
          /\ Truthy(all_articles'[k].title)
          /\ Truthy(all_articles'[k].link)
          /\ Truthy(all_articles'[k].snippet)
     /\ \A k \in 1..Len(md_articles') :
          /\ Truthy(md_articles'[k].title)
          /\ Truthy(md_articles'[k].link)
          /\ Truthy(md_articles'[k].snippet)
     /\ (md_pc = "process" /\ md_pc' = "while") =>
          /\ \A k \in 1..Len(md_page) :
               LET b == md_page[k]
               IN (ShowsTitle(b) /\ ShowsLink(b) /\ ShowsSnippet(b) /\ ShowsValid(b)
                     /\ b.imgs = <<>>) =>
                    \E j \in 1..Len(all_articles') :
                      /\ all_articles'[j].link = LinkShown(b)
                      /\ all_articles'[j].topic = MEDIUM_TOPICS[md_topic]
                      /\ all_articles'[j].img = None
          /\ (\A k \in 1..Len(md_page) :
                ~(ShowsTitle(md_page[k]) /\ ShowsLink(md_page[k])
                    /\ ShowsSnippet(md_page[k])))
               => all_articles' = all_articles
    ]_vars

\* fetch_articles returned two articles, one of them without an image.
C8_Witness ==
  /\ md_pc = "done"
  /\ Len(md_articles) = 2
  /\ \E k \in 1..Len(md_articles) : md_articles[k].img = None
  /\ \E k \in 1..Len(md_articles) : md_articles[k].img # None

ThreeEmptyBatches == md_batches = <<FALSE, FALSE, FALSE>>

\* C18: for each topic the scroll loop stops exactly when 3 consecutive
\* batches yielded no new article: the loop is left only when the last three
\* batches of the topic were all empty, it goes on to another batch only when
\* they were not, and a batch with a new article puts the count of
\* consecutive empty batches back to 0.
C18_StopsAfterThreeEmptyBatches ==
  [][/\ (md_pc = "while" /\ md_pc' \in {"fetch_page", "quit"}) => ThreeEmptyBatches
     /\ (md_pc = "while" /\ md_pc' = "process") => ~ThreeEmptyBatches
     /\ (md_pc = "process" /\ md_pc' = "while") =>
          /\ md_batches' # <<>>
          /\ md_batches'[Len(md_batches')] = (all_articles' # all_articles)
          /\ md_batches'[Len(md_batches')] => consecutive_no_new' = 0
    ]_vars

\* The loop of the last topic has been left after three empty batches that
\* followed a batch with a new article of that topic.
C18_Witness ==
  /\ md_pc = "quit"
  /\ ThreeEmptyBatches
  /\ \E k \in 1..Len(all_articles) :
       all_articles[k].topic = MEDIUM_TOPICS[Len(MEDIUM_TOPICS)]

\* fetch_articles runs its statements one after the other: a step that can
\* be taken is taken.
FairSpec == Spec /\ WF_vars(Next)

MaxExisting == 2
MaxReports == 2

\* f"{n:0{w}d}" of a natural n
RECURSIVE format_d(_, _)
format_d(n, w) ==
  IF n < 10 THEN [k \in 1..(w - 1) |-> "0"] \o <<DigitChars[n + 1]>>
  ELSE format_d(n \div 10, IF w > 1 THEN w - 1 ELSE 1) \o <<DigitChars[(n % 10) + 1]>>

\* The text of a '%Y-%m-%d' date
date_text(d) ==
  format_d(d[1], 4) \o <<"-">> \o format_d(d[2], 2) \o <<"-">> \o format_d(d[3], 2)

\* os.path.join(dst_dir, filename)
path_join(dst_dir, filename) == <<dst_dir, "/">> \o filename

\* os.path.exists(path)
path_exists(path) == path \in DOMAIN news

\* The file name filename_generator tries at suffix ix.
summary_filename(ix) ==
  IF ix = 0 THEN <<"AI_News_Summary_">> \o date_text(strftime(today)) \o <<".md">>
  ELSE <<"AI_News_Summary_">> \o date_text(strftime(today)) \o <<"_">>
         \o format_d(ix, 2) \o <<".md">>

RECURSIVE filename_generator_loop(_, _)
filename_generator_loop(dst_dir, ix) ==
  LET path_to_fname == path_join(dst_dir, summary_filename(ix))
  IN IF path_exists(path_to_fname) THEN filename_generator_loop(dst_dir, ix + 1)
     ELSE path_to_fname

\* A generator that returns the name of the date without probing the directory.
filename_generator_without_probe(dst_dir) == path_join(dst_dir, summary_filename(0))

filename_generator(dst_dir) == filename_generator_loop(dst_dir, 0)

\* The names generate_markdown binds itself, the names main.py binds at module
\* level, and the builtins the function uses. A name is looked up in these only.
generate_markdown_locals ==
  {"dst_dir", "techcrunch_articles", "youtube_videos", "reddit_posts",
   "medium_posts", "filename", "f", "article", "video", "post"}
main_globals ==
  {"os", "sqlite3", "List", "Dict", "Any", "load_dotenv", "datetime", "pd",
   "RedditNewsFetcher", "RedditPost", "YouTubeNewsFetcher", "Video",
   "TechCrunchNews", "TechCrunchArticle", "MediumNewsFetcher", "MediumArticle",
   "CONFIGS", "save_to_sqlite", "filename_generator", "generate_markdown", "main"}
builtins == {"open", "print", "len", "vars"}
NameResolves(name) == name \in generate_markdown_locals \cup main_globals \cup builtins

\* f"{v}" of an Optional[str], of a date and of an int
fstr(v) == IF v = None THEN <<"None">> ELSE v
fstr_date(d) == IF d = None THEN <<"None">> ELSE date_text(d)
fstr_int(n) == format_d(n, 1)

\* The writes of each section's loop, one element per f.write.
RECURSIVE techcrunch_writes(_)
techcrunch_writes(articles) ==
  IF articles = <<>> THEN <<>>
  ELSE LET article == Head(articles)
       IN << <<"- [">> \o fstr(article.title) \o <<"](">> \o fstr(article.link) \o <<")\n">>,
             <<"  - Author: ">> \o fstr(article.author) \o <<"\n">>,
             <<"  - Date: ">> \o fstr_date(article.date) \o <<"\n">>,
             <<"  - Excerpt: ">> \o fstr(article.snippet) \o <<"\n\n">> >>
          \o techcrunch_writes(Tail(articles))

RECURSIVE youtube_writes(_)
youtube_writes(videos) ==
  IF videos = <<>> THEN <<>>
  ELSE LET video == Head(videos)
       IN << <<"- [">> \o fstr(video.title) \o <<"](">> \o fstr(video.link) \o <<")\n">>,
             <<"  - Channel: ">> \o fstr(video.channel) \o <<"\n">>,
             <<"  - Topic: ">> \o fstr(video.topic) \o <<"\n">>,
             <<"  - Published: ">> \o fstr(video.published_at) \o <<"\n\n">> >>
          \o youtube_writes(Tail(videos))

\* post.url raises AttributeError on an object without that attribute.
reddit_raises(posts) == posts # <<>> /\ "url" \notin DOMAIN Head(posts)

RECURSIVE reddit_writes(_)
reddit_writes(posts) ==
  IF posts = <<>> \/ reddit_raises(posts) THEN <<>>
  ELSE LET post == Head(posts)
       IN << <<"- [">> \o fstr(post.title) \o <<"](">> \o fstr(post.url) \o <<")\n">>,
             <<"  - Subreddit: r/">> \o fstr(post.subreddit) \o <<"\n">>,
             <<"  - Author: u/">> \o fstr(post.author) \o <<"\n">>,
             <<"  - Score: ">> \o fstr_int(post.score) \o <<"\n">>,
             <<"  - Comments: ">> \o fstr_int(post.num_comments) \o <<"\n">>,
             <<"  - Date: ">> \o fstr_date(post.date) \o <<"\n\n">> >>
          \o reddit_writes(Tail(posts))

RECURSIVE medium_writes(_)
medium_writes(posts) ==
  IF posts = <<>> THEN <<>>
  ELSE LET post == Head(posts)
       IN << <<"- [">> \o fstr(post.title) \o <<"](">> \o fstr(post.link) \o <<")\n">>,
             <<"  - Topic: ">> \o <<post.topic>> \o <<"\n">>,
             <<"  - Date: ">> \o fstr_date(post.date) \o <<"\n">>,
             <<"  - Excerpt: ">> \o fstr(post.snippet) \o <<"\n\n">> >>
          \o (IF Truthy(post.img)
              THEN << <<"  ![Article Image](">> \o post.img \o <<")\n\n">> >>
              ELSE <<>>)
          \o medium_writes(Tail(posts))

TitleWrite == <<"# AI News Summary - ">> \o date_text(strftime(today)) \o <<"\n\n">>
TechCrunchHeader == <<"\n## TechCrunch Articles\n">>
YouTubeHeader == <<"\n## YouTube Videos\n">>
RedditHeader == <<"\n## Reddit Posts\n">>
MediumHeader == <<"\n## Medium.com Posts\n">>

\* generate_markdown: the path it opened, what it wrote to it, and the
\* exception that ended it ("" when it returned).
generate_markdown(dst_dir, techcrunch_articles, youtube_videos, reddit_posts, medium_posts) ==
  LET filename == filename_generator(dst_dir)
      upto_reddit == <<TitleWrite, TechCrunchHeader>> \o techcrunch_writes(techcrunch_articles)
                       \o <<YouTubeHeader>> \o youtube_writes(youtube_videos)
                       \o <<RedditHeader>>
  IN IF ~NameResolves("today")
     THEN [filename |-> filename, writes |-> <<>>, raised |-> "NameError"]
     ELSE IF reddit_raises(reddit_posts)
     THEN [filename |-> filename, writes |-> upto_reddit, raised |-> "AttributeError"]
     ELSE [filename |-> filename,
           writes |-> upto_reddit \o reddit_writes(reddit_posts)
                        \o <<MediumHeader>> \o medium_writes(medium_posts),
           raised |-> ""]

\* The records the four fetchers can hand to the report.
MaxSection == 1
ReportArticles == {Article(TitleEn, Link1, UnknownAuthor, <<"s">>, strftime(today))}
ReportVideos ==
  {Video(<<"v">>, <<"v1">>, <<"2025-01-01T00:00:00Z">>, <<"LLM">>, Link2, <<"c">>,
         <<"2025-01-01">>, <<"d">>, <<"t">>)}
ReportPosts ==
  {RedditPost(<<"t">>, Link2, None, 1, strftime(today), <<"x">>, 0, <<"GPT3">>, TRUE)}
ReportMediumPosts ==
  {MediumArticle(<<"A">>, Link1, img, <<"s">>, strftime(today), MEDIUM_TOPICS[1]) :
     img \in {None, ImgJpg}}

\* Reports of earlier runs of the same day that may lie in the directory.
OldReport == << <<"old">> >>
ExistingPaths == {path_join("news", summary_filename(ix)) : ix \in 0..MaxExisting}

InitReport ==
  /\ DedupeIdle /\ WindowIdle /\ RedditIdle /\ TechCrunchIdle /\ MediumParserIdle
  /\ MediumIdle /\ MainIdle /\ YouTubeIdle /\ RunsIdle
  /\ today \in Todays /\ days_back = 0
  /\ news \in {[p \in S |-> OldReport] : S \in SUBSET ExistingPaths}
  /\ gm_status = "init" /\ gm_filename = <<>> /\ gm_args = <<>> /\ gm_calls = 0

GenerateMarkdown ==
  /\ gm_status # "none"
  /\ gm_calls < MaxReports
  /\ \E techcrunch_articles \in SeqsUpTo(ReportArticles, MaxSection),
        youtube_videos \in SeqsUpTo(ReportVideos, MaxSection),
        reddit_posts \in SeqsUpTo(ReportPosts, MaxSection),
        medium_posts \in SeqsUpTo(ReportMediumPosts, MaxSection) :
       LET r == generate_markdown("news", techcrunch_articles, youtube_videos,
                                  reddit_posts, medium_posts)
       IN /\ news' = [p \in DOMAIN news \cup {r.filename} |->
                        IF p = r.filename THEN r.writes ELSE news[p]]
          /\ gm_status' = IF r.raised = "" THEN "ok" ELSE "raised"
          /\ gm_filename' = r.filename
          /\ gm_args' = <<techcrunch_articles, youtube_videos, reddit_posts, medium_posts>>
          /\ gm_calls' = gm_calls + 1
  /\ UNCHANGED <<today, outsideReport>>

NextReport == GenerateMarkdown
SpecReport == InitReport /\ [][NextReport]_vars

IsBullet(write) == write # <<>> /\ Head(write) = "- ["
Written(write) == \E k \in 1..Len(news[gm_filename]) : news[gm_filename][k] = write

\* C10: given four empty source lists, generate_markdown completes without
\* error and the document it wrote contains the title line and the four
\* section headers and no item bullet.
C10_EmptyListsReport ==
  (gm_status \in {"ok", "raised"} /\ gm_args = <<<<>>, <<>>, <<>>, <<>>>>) =>
    /\ gm_status = "ok"
    /\ Written(TitleWrite)
    /\ Written(TechCrunchHeader) /\ Written(YouTubeHeader)
    /\ Written(RedditHeader) /\ Written(MediumHeader)
    /\ \A k \in 1..Len(news[gm_filename]) : ~IsBullet(news[gm_filename][k])

\* The outline of a document: its section headers and the first lines of its
\* bullet blocks, in the order written.
IsHeader(write) ==
  write \in {TechCrunchHeader, YouTubeHeader, RedditHeader, MediumHeader}
Outline(writes) ==
  LET InOutline(write) == IsHeader(write) \/ IsBullet(write)
  IN SelectSeq(writes, InOutline)
\* The first line of the bullet block of each item of a list: the title linked
\* to the link.
LinkedTitles(items) ==
  [k \in 1..Len(items) |->
     <<"- [">> \o items[k].title \o <<"](">> \o items[k].link \o <<")\n">>]

\* C11: for any four lists generate_markdown writes one document whose
\* sections come in the order TechCrunch, YouTube, Reddit, Medium, each with
\* one bullet block per item of its list, in list order, that begins with the
\* item's title linked to the item's link.
C11_SectionsInFixedOrder ==
  gm_status \in {"ok", "raised"} =>
    /\ gm_status = "ok"
    /\ Outline(news[gm_filename]) =
         <<TechCrunchHeader>> \o LinkedTitles(gm_args[1])
           \o <<YouTubeHeader>> \o LinkedTitles(gm_args[2])
           \o <<RedditHeader>> \o LinkedTitles(gm_args[3])
           \o <<MediumHeader>> \o LinkedTitles(gm_args[4])

\* The name the report of today gets at suffix ix: un-suffixed for 0, else
\* _NN with NN the two digits of ix.
ExpectedPath(ix) ==
  <<"news", "/", "AI_News_Summary_">> \o date_text(strftime(today))
    \o (IF ix = 0 THEN <<>>
        ELSE <<"_", DigitChars[(ix \div 10) + 1], DigitChars[(ix % 10) + 1]>>)
    \o <<".md">>
SmallestFree(files) ==
  CHOOSE ix \in 0..(MaxExisting + MaxReports + 1) :
    /\ ExpectedPath(ix) \notin files
    /\ \A lower_ix \in 0..(ix - 1) : ExpectedPath(lower_ix) \in files

\* C12: the path filename_generator returns is not the path of an existing
\* file: it is the un-suffixed name of today when that is free, else the name
\* with the smallest two-digit suffix _NN >= 01 that is unused; the files that
\* existed are left as they were.
C12_NeverAnExistingFile ==
  [][gm_calls' = gm_calls + 1 =>
       /\ gm_filename' \notin DOMAIN news
       /\ gm_filename' = ExpectedPath(SmallestFree(DOMAIN news))
       /\ \A path \in DOMAIN news : path \in DOMAIN news' /\ news'[path] = news[path]
    ]_vars

\* With the date file and _01 present from earlier runs, a run got _02, and the
\* two earlier reports are as they were.
C12_Witness ==
  /\ gm_calls >= 1
  /\ gm_filename = ExpectedPath(2)
  /\ ExpectedPath(0) \in DOMAIN news /\ news[ExpectedPath(0)] = OldReport
  /\ ExpectedPath(1) \in DOMAIN news /\ news[ExpectedPath(1)] = OldReport

(***************************************************************************)
(* The entry points: main of main.py, and main of reddit_search.py and of  *)
(* youtube_search.py.  A fetch is one step that returns a list or raises.  *)
(***************************************************************************)
Credentials ==
  {"REDDIT_CLIENT_ID", "REDDIT_CLIENT_SECRET", "REDDIT_USER_AGENT", "YOUTUBE_API_KEY"}
RedditCredentials == Credentials \ {"YOUTUBE_API_KEY"}

\* One entry of the record of the fetches: the operation, whether it raised,
\* and the list it returned.
Call(op, raised, returned) == [op |-> op, raised |-> raised, returned |-> returned]
\* What a fetch can end with: an exception, or one of the lists it can return.
FetchOutcomes(op, items) ==
  {Call(op, TRUE, <<>>)} \cup {Call(op, FALSE, l) : l \in SeqsUpTo(items, MaxSection)}

NoLists ==
  [reddit_posts |-> <<>>, youtube_videos |-> <<>>, techcrunch_articles |-> <<>>,
   medium_posts |-> <<>>]

InitMain ==
  /\ DedupeIdle /\ WindowIdle /\ RedditIdle /\ TechCrunchIdle /\ MediumParserIdle
  /\ MediumIdle
  /\ today = NewYearsDay /\ days_back = DAYS_BACK
  /\ news = <<>> /\ gm_status = "init" /\ gm_filename = <<>> /\ gm_args = <<>>
  /\ gm_calls = 0
  /\ mn_entry \in {"main.py", "reddit_search.py", "youtube_search.py"}
  /\ mn_env \in [Credentials -> BOOLEAN]
  /\ mn_pc = "start"
  /\ mn_calls = <<>>
  /\ mn_lists = NoLists
  /\ mn_driver = "none"
  /\ YouTubeIdle /\ RunsIdle

\* main, the four constructors.  main tests no credential: praw.Reddit and
\* googleapiclient's build get what os.getenv returned and decide themselves
\* whether to raise on a None; webdriver.Chrome raises when no browser starts.
ConstructFetchers ==
  /\ mn_entry = "main.py" /\ mn_pc = "start"
  /\ \E constructed \in BOOLEAN :
       IF constructed
       THEN mn_pc' = "fetch_reddit" /\ mn_driver' = "open"
       ELSE mn_pc' = "raised" /\ mn_driver' = mn_driver
  /\ UNCHANGED <<mn_entry, mn_env, mn_calls, mn_lists, today, gmVars, outsideMain>>

\* reddit_posts = reddit_fetcher.fetch_posts(), outside any try.
FetchReddit ==
  /\ mn_entry = "main.py" /\ mn_pc = "fetch_reddit"
  /\ \E call \in FetchOutcomes("RedditNewsFetcher.fetch_posts", ReportPosts) :
       /\ mn_calls' = Append(mn_calls, call)
       /\ IF call.raised
          THEN mn_pc' = "raised" /\ mn_lists' = mn_lists
          ELSE /\ mn_pc' = "fetch_youtube"
               /\ mn_lists' = [mn_lists EXCEPT !.reddit_posts = call.returned]
  /\ UNCHANGED <<mn_entry, mn_env, mn_driver, today, gmVars, outsideMain>>

\* youtube_videos = []: the call of youtube_fetcher.fetch_videos() is commented out.
AssignYouTubeVideos ==
  /\ mn_entry = "main.py" /\ mn_pc = "fetch_youtube"
  /\ mn_lists' = [mn_lists EXCEPT !.youtube_videos = <<>>]
  /\ mn_pc' = "fetch_techcrunch"
  /\ UNCHANGED <<mn_entry, mn_env, mn_calls, mn_driver, today, gmVars, outsideMain>>

\* techcrunch_articles = techcrunch_fetcher.get_articles()
FetchTechCrunch ==
  /\ mn_entry = "main.py" /\ mn_pc = "fetch_techcrunch"
  /\ \E call \in FetchOutcomes("TechCrunchNews.get_articles", ReportArticles) :
       /\ mn_calls' = Append(mn_calls, call)
       /\ IF call.raised
          THEN mn_pc' = "raised" /\ mn_lists' = mn_lists
          ELSE /\ mn_pc' = "fetch_medium"
               /\ mn_lists' = [mn_lists EXCEPT !.techcrunch_articles = call.returned]
  /\ UNCHANGED <<mn_entry, mn_env, mn_driver, today, gmVars, outsideMain>>

\* medium_posts = medium_fetcher.fetch_articles(): the driver is quit on the
\* way to the return statement, not when an exception leaves the function.
FetchMedium ==
  /\ mn_entry = "main.py" /\ mn_pc = "fetch_medium"
  /\ \E call \in FetchOutcomes("MediumNewsFetcher.fetch_articles", ReportMediumPosts) :
       /\ mn_calls' = Append(mn_calls, call)
       /\ IF call.raised
          THEN mn_pc' = "raised" /\ mn_lists' = mn_lists /\ mn_driver' = mn_driver
          ELSE /\ mn_pc' = "save"
               /\ mn_lists' = [mn_lists EXCEPT !.medium_posts = call.returned]
               /\ mn_driver' = "quit"
  /\ UNCHANGED <<mn_entry, mn_env, today, gmVars, outsideMain>>

\* The four DataFrames and save_to_sqlite calls; pandas or sqlite3 can raise.
SaveToSqlite ==
  /\ mn_entry = "main.py" /\ mn_pc = "save"
  /\ \E saved \in BOOLEAN : mn_pc' = IF saved THEN "generate_markdown" ELSE "raised"
  /\ UNCHANGED <<mn_entry, mn_env, mn_calls, mn_lists, mn_driver, today, gmVars,
                 outsideMain>>

\* generate_markdown("news", techcrunch_articles, youtube_videos, reddit_posts,
\* medium_posts) and the last print.
MainGenerateMarkdown ==
  /\ mn_entry = "main.py" /\ mn_pc = "generate_markdown"
  /\ LET r == generate_markdown("news", mn_lists.techcrunch_articles,
                                mn_lists.youtube_videos, mn_lists.reddit_posts,
                                mn_lists.medium_posts)
     IN /\ news' = [p \in DOMAIN news \cup {r.filename} |->
                      IF p = r.filename THEN r.writes ELSE news[p]]
        /\ gm_status' = IF r.raised = "" THEN "ok" ELSE "raised"
        /\ gm_filename' = r.filename
        /\ gm_args' = <<mn_lists.techcrunch_articles, mn_lists.youtube_videos,
                        mn_lists.reddit_posts, mn_lists.medium_posts>>
        /\ gm_calls' = gm_calls + 1
        /\ mn_pc' = IF r.raised = "" THEN "done" ELSE "raised"
  /\ UNCHANGED <<mn_entry, mn_env, mn_calls, mn_lists, mn_driver, today, outsideMain>>

\* tools/reddit_search.py main(): the credential test comes before the fetcher
\* is constructed; the fetcher's constructor and its fetch can both raise.
RedditSearchMain ==
  /\ mn_entry = "reddit_search.py" /\ mn_pc = "start"
  /\ IF \E c \in RedditCredentials : ~mn_env[c]
     THEN mn_pc' = "raised" /\ mn_calls' = mn_calls /\ mn_lists' = mn_lists
     ELSE \/ mn_pc' = "raised" /\ mn_calls' = mn_calls /\ mn_lists' = mn_lists
          \/ \E call \in FetchOutcomes("RedditNewsFetcher.fetch_posts", ReportPosts) :
               /\ mn_calls' = Append(mn_calls, call)
               /\ mn_pc' = IF call.raised THEN "raised" ELSE "done"
               /\ mn_lists' = [mn_lists EXCEPT !.reddit_posts = call.returned]
  /\ UNCHANGED <<mn_entry, mn_env, mn_driver, today, gmVars, outsideMain>>

\* tools/youtube_search.py main(): the key test comes before the fetcher is
\* constructed.
YouTubeSearchMain ==
  /\ mn_entry = "youtube_search.py" /\ mn_pc = "start"
  /\ IF ~mn_env["YOUTUBE_API_KEY"]
     THEN mn_pc' = "raised" /\ mn_calls' = mn_calls /\ mn_lists' = mn_lists
     ELSE \/ mn_pc' = "raised" /\ mn_calls' = mn_calls /\ mn_lists' = mn_lists
          \/ \E call \in FetchOutcomes("YouTubeNewsFetcher.fetch_videos", ReportVideos) :
               /\ mn_calls' = Append(mn_calls, call)
               /\ mn_pc' = IF call.raised THEN "raised" ELSE "done"
               /\ mn_lists' = [mn_lists EXCEPT !.youtube_videos = call.returned]
  /\ UNCHANGED <<mn_entry, mn_env, mn_driver, today, gmVars, outsideMain>>

NextMain ==
  \/ ConstructFetchers
  \/ FetchReddit
  \/ AssignYouTubeVideos
  \/ FetchTechCrunch
  \/ FetchMedium
  \/ SaveToSqlite
  \/ MainGenerateMarkdown
  \/ RedditSearchMain
  \/ YouTubeSearchMain

SpecMain == InitMain /\ [][NextMain]_vars

Called(op) == \E k \in 1..Len(mn_calls) : mn_calls[k].op = op
MainExited == mn_entry = "main.py" /\ mn_pc \in {"done", "raised"}
RetrievalFailed == \E k \in 1..Len(mn_calls) : mn_calls[k].raised

\* C15: a retrieval failure in one source never fails the whole run: when main
\* has exited after a fetch raised, the fetches of all three sources were still
\* invoked and generate_markdown was called.
C15_FetchFailureDoesNotStopTheRun ==
  (MainExited /\ RetrievalFailed)
    => /\ Called("RedditNewsFetcher.fetch_posts")
       /\ Called("TechCrunchNews.get_articles")
       /\ Called("MediumNewsFetcher.fetch_articles")
       /\ gm_calls = 1

(***************************************************************************)
(* YouTubeNewsFetcher.fetch_videos, one search term and one search result  *)
(* at a time.                                                              *)
(***************************************************************************)
InitYouTube ==
  /\ DedupeIdle /\ WindowIdle /\ RedditIdle /\ TechCrunchIdle /\ MediumParserIdle
  /\ MediumIdle /\ ReportIdle /\ MainIdle /\ RunsIdle
  /\ today = NewYearsDay /\ days_back = DAYS_BACK
  /\ yt_pc = "search" /\ yt_term = 1
  /\ yt_items = <<>> /\ yt_lookups = <<>> /\ yt_videos = <<>>
  /\ yt_all_videos = <<>> /\ yt_result = <<>>

\* video_items = self.api_client.search_videos(term, published_after); an
\* HttpError is caught there and yields [], one of the responses.
SearchVideos ==
  /\ yt_pc = "search"
  /\ \E items \in SearchResponses :
       /\ yt_items' = items
       /\ yt_videos' = <<>>
       /\ yt_pc' = "process"
  /\ UNCHANGED <<yt_term, yt_lookups, yt_all_videos, yt_result, outsideYouTube>>

\* One element of the list comprehension over video_items.
ProcessVideo ==
  /\ yt_pc = "process"
  /\ Len(yt_videos) < Len(yt_items)
  /\ \E transcript_ok, description_ok \in BOOLEAN :
       LET item == SearchItem(yt_items[Len(yt_videos) + 1])
           query == search_terms[yt_term]
           r == process_video_lookups(item, query, transcript_ok, description_ok)
       IN /\ yt_lookups' = Append(yt_lookups,
                                  [video_id |-> item.videoId, query |-> query,
                                   transcript_ok |-> transcript_ok,
                                   description_ok |-> description_ok])
          /\ IF r.raised
             THEN yt_pc' = "raised" /\ yt_videos' = yt_videos
             ELSE yt_pc' = yt_pc /\ yt_videos' = Append(yt_videos, r.video)
  /\ UNCHANGED <<yt_term, yt_items, yt_all_videos, yt_result, outsideYouTube>>

\* all_videos.extend(videos), then the next term or
\* return self.remove_duplicates(all_videos).
ExtendAllVideos ==
  /\ yt_pc = "process"
  /\ Len(yt_videos) = Len(yt_items)
  /\ yt_all_videos' = yt_all_videos \o yt_videos
  /\ IF yt_term < Len(search_terms)
     THEN yt_term' = yt_term + 1 /\ yt_pc' = "search" /\ yt_result' = yt_result
     ELSE /\ yt_term' = yt_term /\ yt_pc' = "done"
          /\ yt_result' = remove_duplicates(yt_all_videos \o yt_videos)
  /\ UNCHANGED <<yt_items, yt_lookups, yt_videos, outsideYouTube>>

NextYouTube == SearchVideos \/ ProcessVideo \/ ExtendAllVideos
SpecYouTube == InitYouTube /\ [][NextYouTube]_vars

\* C16: a failed transcript or description lookup never drops the video: every
\* call of process_video has returned a Video whose failed optional field is
\* empty, no lookup failure leaves fetch_videos, and what fetch_videos returns
\* holds every video id that was processed.
C16_LookupFailureKeepsTheVideo ==
  /\ yt_pc # "raised"
  /\ \A k \in 1..Len(yt_lookups) :
       LET l == yt_lookups[k]
           built == yt_all_videos \o yt_videos
       IN /\ k <= Len(built)
          /\ built[k].video_id = l.video_id /\ built[k].topic = l.query
          /\ (~l.transcript_ok => built[k].transcript = "")
          /\ (~l.description_ok => built[k].description = "")
          /\ yt_pc = "done" => \E j \in 1..Len(yt_result) : yt_result[j].video_id = l.video_id

\* C17: the browser session MediumNewsFetcher starts at construction is
\* released on every exit path: once main has exited, normally or by an
\* exception, no Chrome session is left open.
C17_DriverReleasedOnEveryExit ==
  MainExited => mn_driver # "open"

\* The credentials an entry point needs for the fetchers it constructs.
RequiredCredentials ==
  IF mn_entry = "main.py" THEN Credentials
  ELSE IF mn_entry = "reddit_search.py" THEN RedditCredentials
  ELSE {"YOUTUBE_API_KEY"}

\* C19: a missing required credential is fatal before the run: when a
\* credential the entry point needs is absent from the environment, no fetch
\* of any fetcher is ever invoked, in main as in the adapters' own mains.
C19_MissingCredentialAbortsBeforeFetch ==
  (\E c \in RequiredCredentials : ~mn_env[c]) => mn_calls = <<>>

\* C20: one run of main invokes the fetch of each of the four adapters exactly
\* once, one after the other, and hands generate_markdown exactly the four
\* lists those fetches returned.
C20_FourFetchesThenReport ==
  (mn_entry = "main.py" /\ gm_calls = 1) =>
    /\ Len(mn_calls) = 4
    /\ mn_calls[1].op = "RedditNewsFetcher.fetch_posts"
    /\ mn_calls[2].op = "YouTubeNewsFetcher.fetch_videos"
    /\ mn_calls[3].op = "TechCrunchNews.get_articles"
    /\ mn_calls[4].op = "MediumNewsFetcher.fetch_articles"
    /\ gm_args = <<mn_calls[3].returned, mn_calls[2].returned, mn_calls[1].returned,
                   mn_calls[4].returned>>

(***************************************************************************)
(* Two runs of generate_markdown on the same date and directory, as two    *)
(* processes whose steps interleave.                                       *)
(***************************************************************************)
Runs == {1, 2}

InitRuns ==
  /\ DedupeIdle /\ WindowIdle /\ RedditIdle /\ TechCrunchIdle /\ MediumParserIdle
  /\ MediumIdle /\ MainIdle /\ YouTubeIdle
  /\ today \in Todays /\ days_back = 0
  /\ news \in {[p \in S |-> OldReport] : S \in SUBSET ExistingPaths}
  /\ gm_status = "init" /\ gm_filename = <<>> /\ gm_args = <<>> /\ gm_calls = 0
  /\ rn_pc = [r \in Runs |-> "probe"]
  /\ rn_ix = [r \in Runs |-> 0]
  /\ rn_opened = <<>>

\* filename_generator, one test of os.path.exists: the path of ix exists and
\* the loop goes on to ix + 1, or it is free and is returned.
ProbePath(r) ==
  /\ rn_pc[r] = "probe"
  /\ IF path_exists(path_join("news", summary_filename(rn_ix[r])))
     THEN rn_ix' = [rn_ix EXCEPT ![r] = @ + 1] /\ rn_pc' = rn_pc
     ELSE rn_ix' = rn_ix /\ rn_pc' = [rn_pc EXCEPT ![r] = "open"]
  /\ UNCHANGED <<rn_opened, news, today, outsideRuns>>

\* with open(filename, 'w') as f: the path is created or truncated, then the
\* writes of generate_markdown follow until it returns or raises.
OpenAndWrite(r) ==
  /\ rn_pc[r] = "open"
  /\ LET filename == path_join("news", summary_filename(rn_ix[r]))
         g == generate_markdown("news", <<>>, <<>>, <<>>, <<>>)
     IN /\ rn_opened' = Append(rn_opened, [run |-> r, path |-> filename,
                                            existed |-> path_exists(filename)])
        /\ news' = [p \in DOMAIN news \cup {filename} |->
                      IF p = filename THEN g.writes ELSE news[p]]
        /\ rn_pc' = [rn_pc EXCEPT ![r] = IF g.raised = "" THEN "done" ELSE "raised"]
  /\ UNCHANGED <<rn_ix, today, outsideRuns>>

NextRuns == \E r \in Runs : ProbePath(r) \/ OpenAndWrite(r)

SpecRuns == InitRuns /\ [][NextRuns]_vars

\* C23: no report is overwritten when two runs of the same date interleave:
\* no run opens for writing a path that exists, be it a report of an earlier
\* run or the file the other run created, and the two runs open two
\* different paths.
C23_NoOverwriteWhenRunsInterleave ==
  /\ \A k \in 1..Len(rn_opened) : ~rn_opened[k].existed
  /\ \A j, k \in 1..Len(rn_opened) : j # k => rn_opened[j].path # rn_opened[k].path

====
